---- MODULE Spec2Model ----
(***************************************************************************)
(* Model of the pairing text parser of assets/js/pairings.js: the title    *)
(* check of getPDFPairings, the block segmenter buildPairings, the         *)
(* tokenizer parsePairings, calcLength, the validator verifyPairings, the  *)
(* store insertion of readFile and the calendar function gauss.            *)
(*                                                                         *)
(* A JavaScript string is a sequence of one-character strings, so that     *)
(* length, concatenation, substring and the regular expressions of the     *)
(* source are computed and not assumed.  The document text is held as the  *)
(* sequence of its lines (text.split(/\r?\n|\r|\n/g)).                     *)
(***************************************************************************)
EXTENDS Integers, Sequences, FiniteSets, TLC

VARIABLES
    pc,               \* position of the one readFile / getPDFPairings call
    text,             \* lines of the document returned by getPDFText
    month,            \* getPDFPairings: month
    year,             \* getPDFPairings: year
    codeshare,        \* getPDFPairings: codeshare
    builtPairings,    \* getPDFPairings: builtPairings (blocks of lines)
    j,                \* parsePairings: index of the next block (0-based)
    pairings,         \* parsePairings: the module-level list `pairings`
    result,           \* value getPDFPairings resolved with
    error,            \* error getPDFPairings rejected with
    settled,          \* value readFile's promise resolved with
    allPairingsJSON,  \* the accepted set
    vin,              \* verifyPairings: argument
    vout,             \* verifyPairings: whether called, and the error thrown
    gin,              \* gauss: arguments <<year, month, day>>
    gout,             \* gauss: returned value
    uploadButton,     \* the upload button: [disabled |-> BOOLEAN]
    filesList,        \* uploadFiles: the files being read (file names)
    filesToRead,      \* readFiles: state of the promise of each readFile
    pairingsJSON,     \* the active pairing list: <<>>, or <<month, year>> of
                      \* the allPairingsJSON entry whose list it references
    activeMonth,      \* the global month (active month, index of monthArray)
    activeYear,       \* the global year (active year)
    pagination,       \* the month-year links of the pagination bar
    filtered,         \* displayStats: the filtered pairings it is called with
    stats,            \* displayStats: the counters after the loop over them
    lengthIn,         \* calcLength: the pairing it is called with
    lengthOut,        \* calcLength: returned value
    readers,          \* readFiles: the getPDFPairings call of each file
    heap,             \* the arrays parsePairings created (reference = index)
    globals,          \* the module-level variables parsePairings writes
    filter,           \* the global filter
    jsonList,         \* getPairings: the Pairings of the list pairingsJSON refers to
    shown,            \* getPairings: the list its promise resolved with
    basesIATA,        \* the array basesIATA
    buttons,          \* the base filter buttons that have the class active
    pendingClick,     \* the timer id setTimeout returned last (0: undefined)
    timers,           \* the timers set and not yet fired or cleared, oldest first
    clicks,           \* the click events dispatched so far
    ran               \* the calls of singleClickAction and doubleClickAction so far

vars == <<pc, text, month, year, codeshare, builtPairings, j, pairings, result,
          error, settled, allPairingsJSON, vin, vout, gin, gout,
          uploadButton, filesList, filesToRead, pairingsJSON, activeMonth,
          activeYear, pagination, filtered, stats,
          lengthIn, lengthOut,
          readers, heap, globals,
          filter, jsonList, shown,
          basesIATA, buttons, pendingClick, timers, clicks, ran>>

parseVars == <<pc, text, month, year, codeshare, builtPairings, j, pairings,
               result, error, settled, allPairingsJSON>>
verifyVars == <<vin, vout>>
gaussVars == <<gin, gout>>
uploadVars == <<uploadButton, filesList, filesToRead, pairingsJSON, activeMonth,
                activeYear, pagination>>
statsVars == <<filtered, stats>>
lengthVars == <<lengthIn, lengthOut>>
moduleVars == <<readers, heap, globals>>
filterVars == <<filter, jsonList, shown>>
menuVars == <<basesIATA, buttons, pendingClick, timers, clicks, ran>>
readFileVars == <<pc, text, month, year, codeshare, builtPairings, j, pairings,
                  result, error, settled>>

-----------------------------------------------------------------------------
(* Characters and regular-expression character classes.                     *)

DigitChars == {"0", "1", "2", "3", "4", "5", "6", "7", "8", "9"}
UpperChars == {"A", "B", "C", "D", "E", "F", "G", "H", "I", "J", "K", "L", "M",
               "N", "O", "P", "Q", "R", "S", "T", "U", "V", "W", "X", "Y", "Z"}
LowerChars == {"a", "b", "c", "d", "e", "f", "g", "h", "i", "j", "k", "l", "m",
               "n", "o", "p", "q", "r", "s", "t", "u", "v", "w", "x", "y", "z"}
LetterChars == UpperChars \cup LowerChars
\* \s restricted to the whitespace that can occur inside one extracted line
WhitespaceChars == {" ", "\t"}

\* the value `undefined` (an array index past the end, a missing field)
Undefined == <<"undefined">>
\* the Number NaN
NaN == 0 - 1

\* every character of s is in class
AllIn(s, class) == \A k \in 1..Len(s) : s[k] \in class
\* /^[class]{lo,hi}$/
MatchClass(s, class, lo, hi) == Len(s) >= lo /\ Len(s) <= hi /\ AllIn(s, class)
\* /^[0-9]{lo,hi}$/
MatchDigits(s, lo, hi) == MatchClass(s, DigitChars, lo, hi)

\* String.prototype.includes / search with a literal pattern
Includes(s, pat) ==
    \E k \in 0..(Len(s) - Len(pat)) : SubSeq(s, k + 1, k + Len(pat)) = pat

\* String.prototype.substring(from) and substring(from, to), 0-based
SubstringFrom(s, from) == SubSeq(s, from + 1, Len(s))
Substring(s, from, to) ==
    SubSeq(s, from + 1, IF to > Len(s) THEN Len(s) ELSE to)

\* /\S/.test(s)
HasNonWhitespace(s) == \E k \in 1..Len(s) : s[k] \notin WhitespaceChars

\* String.prototype.replaceAll(c, "")
RemoveChar(s, c) == SelectSeq(s, LAMBDA ch : ch # c)

\* String.prototype.trim
TrimLeft(s) ==
    IF ~HasNonWhitespace(s) THEN <<>>
    ELSE SubSeq(s, CHOOSE a \in 1..Len(s) :
                       /\ s[a] \notin WhitespaceChars
                       /\ \A b \in 1..(a - 1) : s[b] \in WhitespaceChars,
                Len(s))
TrimRight(s) ==
    IF ~HasNonWhitespace(s) THEN <<>>
    ELSE SubSeq(s, 1, CHOOSE a \in 1..Len(s) :
                          /\ s[a] \notin WhitespaceChars
                          /\ \A b \in (a + 1)..Len(s) : s[b] \in WhitespaceChars)
Trim(s) == TrimRight(TrimLeft(s))

\* position of the m-th occurrence of c in s; 0 before the first and
\* Len(s) + 1 after the last
OccurrenceAt(s, c, m) ==
    IF m = 0 THEN 0
    ELSE IF m > Cardinality({k \in 1..Len(s) : s[k] = c}) THEN Len(s) + 1
    ELSE CHOOSE k \in 1..Len(s) :
             s[k] = c /\ Cardinality({q \in 1..k : s[q] = c}) = m

\* String.prototype.split(c): the pieces between the occurrences of c
Split(s, c) ==
    [m \in 1..(Cardinality({k \in 1..Len(s) : s[k] = c}) + 1) |->
        SubSeq(s, OccurrenceAt(s, c, m - 1) + 1, OccurrenceAt(s, c, m) - 1)]

\* Array.prototype.filter(elem => elem != "")
FilterNonEmpty(a) == SelectSeq(a, LAMBDA e : e # <<>>)

\* Array.prototype.join(sep) / toString() (sep = ",")
RECURSIVE Join(_, _)
Join(a, sep) ==
    IF a = <<>> THEN <<>>
    ELSE IF Len(a) = 1 THEN a[1]
    ELSE a[1] \o sep \o Join(Tail(a), sep)

\* Array.prototype.reverse
Reverse(a) == [k \in 1..Len(a) |-> a[Len(a) + 1 - k]]

\* reg[k], 0-based; undefined past the end
At(reg, k) == IF k + 1 <= Len(reg) THEN reg[k + 1] ELSE Undefined
\* reg[k] = v (k inside the array)
SetAt(reg, k, v) == [reg EXCEPT ![k + 1] = v]
\* reg.splice(k, 1): the array without element k
SpliceOut(reg, k) ==
    IF k + 1 <= Len(reg)
    THEN SubSeq(reg, 1, k) \o SubSeq(reg, k + 2, Len(reg))
    ELSE reg
\* "" + reg.splice(k, 1): the removed element as a string ("" when none)
Spliced(reg, k) == IF k + 1 <= Len(reg) THEN reg[k + 1] ELSE <<>>
\* reg[k] = reg[k] + reg.splice(k + 1, 1)
MergeNext(reg, k) ==
    SpliceOut(SetAt(reg, k, reg[k + 1] \o Spliced(reg, k + 1)), k + 1)
\* reg.splice(k, 0, v)
SpliceIn(reg, k, v) == SubSeq(reg, 1, k) \o <<v>> \o SubSeq(reg, k + 1, Len(reg))


-----------------------------------------------------------------------------
(* Literals of the source.                                                  *)

Str1(a) == <<a>>
sBASE == <<"B", "A", "S", "E">>
sREPT == <<"R", "E", "P", "T">>
sEPT == <<"E", "P", "T">>
sPT == <<"P", "T">>
sRE == <<"R", "E">>
sDH == <<"D", "H">>
sTBD == <<"T", "B", "D">>
sDEND == <<"D", "-", "E", "N", "D">>
sTOTALS == <<"T", "O", "T", "A", "L", "S">>
sDashes == <<"-", "-">>
sNil == <<"n", "i", "l">>
sFalse == <<"f", "a", "l", "s", "e">>
sTbdPhone == <<"0", "0", "0", "-", "0", "0", "0", "-", "0", "0", "0", "0">>
sSTANDOVER == <<"S", "T", "A", "N", "D", "O", "V", "E", "R">>
sSeparator == [k \in 1..72 |-> "="]
sBlank == <<"(", "T", "h", "i", "s", " ", "i", "s", " ", "i", "n", "t", "e",
            "n", "t", "i", "o", "n", "a", "l", "l", "y", " ", "l", "e", "f",
            "t", " ", "b", "l", "a", "n", "k", ".", ")">>

\* const calendar = ['1', ..., '31']
calendar ==
    {<<d>> : d \in DigitChars \ {"0"}}
    \cup {<<a, b>> : a \in {"1", "2"}, b \in DigitChars}
    \cup {<<"3", "0">>, <<"3", "1">>}

\* const daysOfTheWeek = ['SU', 'MO', 'TU', 'WE', 'TH', 'FR', 'SA']
daysOfTheWeek == << <<"S", "U">>, <<"M", "O">>, <<"T", "U">>, <<"W", "E">>,
                    <<"T", "H">>, <<"F", "R">>, <<"S", "A">> >>

\* const monthsOfTheYear = ['January', ..., 'December', 'Ocotber']
monthsOfTheYear ==
    << <<"J", "a", "n", "u", "a", "r", "y">>,
       <<"F", "e", "b", "r", "u", "a", "r", "y">>,
       <<"M", "a", "r", "c", "h">>,
       <<"A", "p", "r", "i", "l">>,
       <<"M", "a", "y">>,
       <<"J", "u", "n", "e">>,
       <<"J", "u", "l", "y">>,
       <<"A", "u", "g", "u", "s", "t">>,
       <<"S", "e", "p", "t", "e", "m", "b", "e", "r">>,
       <<"O", "c", "t", "o", "b", "e", "r">>,
       <<"N", "o", "v", "e", "m", "b", "e", "r">>,
       <<"D", "e", "c", "e", "m", "b", "e", "r">>,
       <<"O", "c", "o", "t", "b", "e", "r">> >>

\* Array.prototype.indexOf on daysOfTheWeek (0-based, -1 when absent)
DayIndexOf(d) ==
    IF \E k \in 1..Len(daysOfTheWeek) : daysOfTheWeek[k] = d
    THEN (CHOOSE k \in 1..Len(daysOfTheWeek) : daysOfTheWeek[k] = d) - 1
    ELSE 0 - 1

\* daysOfTheWeek.some(v => t.includes(v))
IncludesWeekday(t) == \E k \in 1..Len(daysOfTheWeek) : Includes(t, daysOfTheWeek[k])

\* /^[0-9]{3}-[0-9]{3}-[0-9]{4}$/
MatchPhone(s) ==
    /\ Len(s) = 12
    /\ s[4] = "-" /\ s[8] = "-"
    /\ \A k \in {1, 2, 3, 5, 6, 7, 9, 10, 11, 12} : s[k] \in DigitChars

\* /^(?=.*[0-9])(?=.*[a-zA-Z])([a-zA-Z0-9]+){3}$/ or /^[A-Z]{2}$/
MatchEquipment(s) ==
    \/ /\ Len(s) >= 3
       /\ AllIn(s, LetterChars \cup DigitChars)
       /\ \E k \in 1..Len(s) : s[k] \in DigitChars
       /\ \E k \in 1..Len(s) : s[k] \in LetterChars
    \/ MatchClass(s, UpperChars, 2, 2)

-----------------------------------------------------------------------------
(* Records of the source: Pairing, Leg, Hotel, and thrown errors.           *)

NoError == [name |-> "none", message |-> ""]
\* throw new Error(message)
Err(message) == [name |-> "Error", message |-> message]
\* a property read or method call on undefined, or a call of a non-function
TypeErr == [name |-> "TypeError", message |-> "undefined"]

\* new Pairing("0")
NewPairing ==
    [id |-> Str1("0"), days |-> <<>>, base |-> sNil, legs |-> <<>>,
     start |-> <<>>, end |-> <<>>, tblk |-> <<>>, dh |-> Str1("0"),
     hotels |-> <<>>, cdt |-> <<>>, tafb |-> <<>>, ldgs |-> <<>>,
     codeshare |-> <<>>, length |-> 0]

\* new Leg()
NewLeg ==
    [origin |-> <<>>, destination |-> <<>>, flightNum |-> <<>>, day |-> <<>>,
     deadhead |-> FALSE, depl |-> <<>>, arrl |-> <<>>, blkt |-> <<>>,
     grnt |-> <<>>, eqp |-> <<>>, tblk |-> <<>>, tcrd |-> <<>>, tpay |-> <<>>,
     duty |-> <<>>, layo |-> <<>>]

\* pairing[i].replaceAll(":", "").trim().split(" ").filter(elem => elem != "")
Tokenize(line) == FilterNonEmpty(Split(Trim(RemoveChar(line, ":")), " "))

\* c carries the error thrown so far; a step runs only when none was
Then(c, F(_)) == IF c.err # NoError THEN c ELSE F(c)
\* a step that runs only under cond
When(cond, c, F(_)) == IF cond THEN Then(c, F) ELSE c
Fail(c, e) == [c EXCEPT !.err = e]

-----------------------------------------------------------------------------
(* parsePairings, line 0 (header) and line 1 (base).  A context c is        *)
(* [err, reg, obj]: the error thrown so far, the token array of the line    *)
(* and pairingObj.                                                          *)

\* Check 2nd item is "BASE"
FixBase(c) ==
    IF At(c.reg, 1) = sBASE THEN c
    ELSE IF At(c.reg, 1) \o At(c.reg, 2) = sBASE
         THEN [c EXCEPT !.reg = MergeNext(c.reg, 1)]
         ELSE Fail(c, Err("Unable to fix 'BASE'."))

\* Check 3rd item is "REPT"
FixRept(c) ==
    LET reg == c.reg
        r2 == At(reg, 2)
        r3 == At(reg, 3)
        unable == Fail(c, Err("Unable to fix 'REPT'."))
    IN  IF r2 = sREPT THEN c
        ELSE IF r2 = Str1("R") THEN
            IF r3 = sEPT
            THEN [c EXCEPT !.reg = SpliceOut(SetAt(reg, 2, sREPT), 3)]
            ELSE IF r3 = Undefined THEN Fail(c, TypeErr)
            ELSE IF Substring(r3, 0, 3) = sEPT
            THEN [c EXCEPT !.reg = SetAt(SetAt(reg, 2, sREPT), 3, SubstringFrom(r3, 3))]
            ELSE unable
        ELSE IF r2 = sRE THEN
            \* reg[2] == "REPT" is a comparison: reg[2] keeps "RE"
            IF r3 = sPT
            THEN [c EXCEPT !.reg = SpliceOut(reg, 3)]
            ELSE IF r3 = Undefined THEN Fail(c, TypeErr)
            ELSE IF Substring(r3, 0, 2) = sPT
            THEN [c EXCEPT !.reg = SetAt(SetAt(reg, 2, sREPT), 3, SubstringFrom(r3, 2))]
            ELSE unable
        ELSE IF r3 = Str1("T")
            THEN [c EXCEPT !.reg = MergeNext(reg, 2)]
        ELSE IF r3 = Undefined THEN Fail(c, TypeErr)
        ELSE IF r3[1] = "T"
            THEN [c EXCEPT !.reg = SetAt(SetAt(reg, 2, r2 \o Str1("T")), 3, SubstringFrom(r3, 1))]
        ELSE unable

\* Start time. Format: HHMML
FixStart(c) ==
    IF At(c.reg, 3) = Undefined THEN Fail(c, TypeErr)
    ELSE IF Len(At(c.reg, 3)) = 5
         THEN [c EXCEPT !.obj.start = At(c.reg, 3)]
    ELSE LET reg2 == MergeNext(c.reg, 3)
         IN  IF Len(At(reg2, 3)) # 5
             THEN Fail([c EXCEPT !.reg = reg2],
                       Err("Incorrect start time format for pairing."))
             ELSE [c EXCEPT !.reg = reg2, !.obj.start = At(reg2, 3)]

\* if (i == 0) { ... continue; }
HeaderLine(c) ==
    Then(Then(Then([c EXCEPT !.obj.id = At(c.reg, 0)], FixBase), FixRept), FixStart)

\* if (i == 1) { ... }   Base. Format: AAA
BaseLine(c) ==
    IF At(c.reg, 1) = Undefined THEN Fail(c, TypeErr)
    ELSE IF Len(At(c.reg, 1)) = 3
         THEN [c EXCEPT !.obj.base = At(c.reg, 1)]
    ELSE LET reg2 == MergeNext(c.reg, 1)
         IN  IF Len(At(reg2, 1)) # 3
             THEN Fail([c EXCEPT !.reg = reg2],
                       Err("Incorrect base format for pairing."))
             ELSE [c EXCEPT !.reg = reg2, !.obj.base = At(reg2, 1)]

-----------------------------------------------------------------------------
(* parsePairings, a leg line.  A leg context c is [err, reg, leg].          *)

\* 1. two characters and a day of the week; 2. one character 1-7 and more than 7 tokens
IsLegLine(reg) ==
    \/ Len(At(reg, 0)) = 2 /\ IncludesWeekday(At(reg, 0))
    \/ /\ Len(At(reg, 0)) = 1
       /\ At(reg, 0)[1] \in {"1", "2", "3", "4", "5", "6", "7"}
       /\ Len(reg) > 7

\* daysOfTheWeek.some(v => reg[0].includes(v)) || reg[0].search(/^[0-7]$/) != -1
IsDayToken(t) ==
    IncludesWeekday(t) \/ MatchClass(t, {"0", "1", "2", "3", "4", "5", "6", "7"}, 1, 1)

\* Check if deadhead flight.
LegDeadhead(c) ==
    IF At(c.reg, 1) = sDH
    THEN [c EXCEPT !.leg.deadhead = TRUE, !.reg = SpliceOut(c.reg, 1)]
    ELSE c

\* Day. Format: DD
LegDay(c) ==
    IF IsDayToken(At(c.reg, 0)) THEN [c EXCEPT !.leg.day = At(c.reg, 0)]
    ELSE LET reg2 == IF Len(At(c.reg, 0)) = 1 /\ At(c.reg, 0)[1] \in LetterChars
                     THEN MergeNext(c.reg, 0) ELSE c.reg
         IN  IF IsDayToken(At(reg2, 0))
             THEN [c EXCEPT !.reg = reg2, !.leg.day = At(reg2, 0)]
             ELSE Fail(c, Err("Incorrect day format for pairing."))

\* number of leading digits of s
RECURSIVE DigitRun(_)
DigitRun(s) ==
    IF s # <<>> /\ Head(s) \in DigitChars THEN 1 + DigitRun(Tail(s)) ELSE 0

\* Flight number. Format: NNNN
LegFlightNumber(c) ==
    LET reg == c.reg
        bad == Err("Incorrect flight number format for pairing.")
    IN  IF At(reg, 1) = Undefined THEN Fail(c, TypeErr)
        ELSE IF MatchDigits(At(reg, 1), 4, 4) THEN [c EXCEPT !.leg.flightNum = At(reg, 1)]
        ELSE IF c.leg.deadhead THEN
            \* Deadhead flight number does not have to be 4 digits. Check for spillage.
            IF At(reg, 2) = Undefined THEN Fail(c, TypeErr)
            ELSE LET index == DigitRun(At(reg, 2))
                     reg2 == IF index > 0
                             THEN SetAt(SetAt(reg, 1, At(reg, 1) \o Substring(At(reg, 2), 0, index)),
                                        2, SubstringFrom(At(reg, 2), index))
                             ELSE reg
                 IN  IF ~MatchDigits(At(reg2, 1), 1, Len(At(reg2, 1)))
                     THEN Fail(c, bad)
                     ELSE [c EXCEPT !.reg = reg2, !.leg.flightNum = At(reg2, 1)]
        ELSE LET reg2 == MergeNext(reg, 1)
             IN  IF Len(At(reg2, 1)) # 4
                 THEN Fail(c, bad)
                 ELSE [c EXCEPT !.reg = reg2, !.leg.flightNum = At(reg2, 1)]

\* String.prototype.replace("-", ""): the first hyphen removed
RECURSIVE RemoveFirst(_, _)
RemoveFirst(s, ch) ==
    IF s = <<>> THEN <<>>
    ELSE IF Head(s) = ch THEN Tail(s)
    ELSE <<Head(s)>> \o RemoveFirst(Tail(s), ch)

\* Origin and destination: split Origin-Destination
LegOriginDestination(c) ==
    LET reg == c.reg IN
    IF At(reg, 2) = Undefined THEN Fail(c, TypeErr)
    ELSE
    LET parts == Split(At(reg, 2), "-")
        origin == parts[1]
        hyphen == Len(parts) > 1
        reg2 == SetAt(reg, 2, origin)
    IN  IF ~hyphen /\ At(reg2, 3) = Undefined THEN Fail(c, TypeErr)
        ELSE
        LET destination == IF hyphen THEN parts[2] ELSE RemoveFirst(At(reg2, 3), "-")
            reg3 == IF hyphen THEN SpliceIn(reg2, 3, destination) ELSE reg2
        IN  IF ~MatchClass(origin, UpperChars, 3, 3)
            THEN Fail(c, Err("Incorrect origin format for pairing."))
            ELSE IF ~MatchClass(destination, UpperChars, 3, 3)
            THEN Fail(c, Err("Incorrect destination format for pairing."))
            ELSE [c EXCEPT !.reg = reg3, !.leg.origin = origin,
                           !.leg.destination = destination]

\* a field of exactly 4 characters at reg[k], merged with the next token if not:
\* the value of the field, or the error
FixLength4(c, k) ==
    IF At(c.reg, k) = Undefined THEN Fail(c, TypeErr)
    ELSE IF Len(At(c.reg, k)) = 4 THEN c
    ELSE LET reg2 == MergeNext(c.reg, k)
         IN  IF Len(At(reg2, k)) # 4
             THEN Fail(c, Err("Incorrect departure time format for pairing."))
             ELSE [c EXCEPT !.reg = reg2]

\* Departure time. Format: hhmm
LegDeparture(c) ==
    LET d == FixLength4(c, 4)
    IN  IF d.err # NoError THEN d ELSE [d EXCEPT !.leg.depl = At(d.reg, 4)]

\* Arrival time. Format: hhmm
LegArrival(c) ==
    LET d == FixLength4(c, 5)
    IN  IF d.err # NoError THEN d ELSE [d EXCEPT !.leg.arrl = At(d.reg, 5)]

\* a field /^[0-9]{lo,4}$/ at reg[k], merged with the next token if it does
\* not match (only when the array is longer than k + 1 if guarded)
FixDigits(c, k, lo, guarded, message) ==
    IF At(c.reg, k) = Undefined THEN Fail(c, TypeErr)
    ELSE IF MatchDigits(At(c.reg, k), lo, 4) THEN c
    ELSE LET reg2 == IF guarded /\ ~(Len(c.reg) > k + 1) THEN c.reg
                     ELSE MergeNext(c.reg, k)
         IN  IF ~MatchDigits(At(reg2, k), lo, 4)
             THEN Fail(c, Err(message))
             ELSE [c EXCEPT !.reg = reg2]

\* Block time. Format: hhmm
LegBlockTime(c) ==
    LET d == FixDigits(c, 6, 1, FALSE, "Incorrect block time format for pairing.")
    IN  IF d.err # NoError THEN d ELSE [d EXCEPT !.leg.blkt = At(d.reg, 6)]

\* Ground time. Format: hhmm. Blank if last flight of day.
LegGroundTime(c) ==
    IF At(c.reg, 7) = Undefined THEN Fail(c, TypeErr)
    ELSE IF MatchDigits(At(c.reg, 7), 2, 4) THEN [c EXCEPT !.leg.grnt = At(c.reg, 7)]
    \* reg.substring is not a function
    ELSE IF Len(At(c.reg, 7)) > 4 THEN Fail(c, TypeErr)
    ELSE LET reg2 == MergeNext(c.reg, 7)
         IN  IF ~MatchDigits(At(reg2, 7), 2, 4)
             THEN Fail(c, Err("Incorrect ground time format for pairing."))
             ELSE [c EXCEPT !.reg = reg2, !.leg.grnt = At(reg2, 7)]

\* Equipment at reg[k]. Format: AAA or AA
LegEquipment(c, k) ==
    IF At(c.reg, k) = Undefined THEN Fail(c, TypeErr)
    ELSE IF MatchEquipment(At(c.reg, k)) THEN [c EXCEPT !.leg.eqp = At(c.reg, k)]
    ELSE LET reg2 == IF Len(c.reg) > k + 1 THEN MergeNext(c.reg, k) ELSE c.reg
         IN  IF ~MatchEquipment(At(reg2, k))
             THEN Fail(c, Err("Incorrect equipment format for pairing."))
             ELSE [c EXCEPT !.reg = reg2, !.leg.eqp = At(reg2, k)]

\* Total Block time.  The re-test is reg[8].search(/^[0-9]{2,4}$/ == -1), that
\* is reg[8].search(/false/): 0 (no throw) only when reg[8] starts with "false"
LegTotalBlock(c) ==
    IF At(c.reg, 8) = Undefined THEN Fail(c, TypeErr)
    ELSE IF MatchDigits(At(c.reg, 8), 1, 4) THEN [c EXCEPT !.leg.tblk = At(c.reg, 8)]
    ELSE LET reg2 == IF Len(c.reg) > 9 THEN MergeNext(c.reg, 8) ELSE c.reg
         IN  IF Substring(At(reg2, 8), 0, 5) # sFalse
             THEN Fail(c, Err("Incorrect total block time format for pairing."))
             ELSE [c EXCEPT !.reg = reg2, !.leg.tblk = At(reg2, 8)]

\* Total Credit time. Format: (h)hmm.
LegTotalCredit(c) ==
    LET d == FixDigits(c, 9, 1, FALSE, "Incorrect total credit time format for pairing.")
    IN  IF d.err # NoError THEN d ELSE [d EXCEPT !.leg.tcrd = At(d.reg, 9)]

\* Total pay time. Format: (h)hmm.
LegTotalPay(c) ==
    LET d == FixDigits(c, 10, 2, FALSE, "Incorrect total pay time format for pairing.")
    IN  IF d.err # NoError THEN d ELSE [d EXCEPT !.leg.tpay = At(d.reg, 10)]

\* Duty time. Format: (h)hmm.
LegDuty(c) ==
    LET d == FixDigits(c, 11, 2, FALSE, "Incorrect duty time format for pairing.")
    IN  IF d.err # NoError THEN d ELSE [d EXCEPT !.leg.duty = At(d.reg, 11)]

\* pairing[i], 0-based; undefined past the end
LineAt(pairing, i) == IF i + 1 <= Len(pairing) THEN pairing[i + 1] ELSE Undefined

\* variant: the layover time is never read
LegLayoverOmitted(c, pairing, i) == c

\* Layover time (optional): only when the line two ahead has no "TOTALS"
LegLayover(c, pairing, i) ==
    IF LineAt(pairing, i + 2) = Undefined THEN Fail(c, TypeErr)
    ELSE IF ~Includes(LineAt(pairing, i + 2), sTOTALS) THEN
        LET d == FixDigits(c, 12, 2, TRUE, "Incorrect layover time format for pairing.")
        IN  IF d.err # NoError THEN d ELSE [d EXCEPT !.leg.layo = At(d.reg, 12)]
    ELSE IF Len(c.reg) > 12
        \* Fixing duty time for very last leg.
        THEN [c EXCEPT !.leg.duty = At(c.reg, 11) \o At(c.reg, 12)]
    ELSE c

\* Not last leg of day: ground time, equipment
LegNotLast(c) ==
    Then(Then(c, LegGroundTime), LAMBDA d : LegEquipment(d, 8))

\* Last leg of day: equipment, duty totals, layover
LegLast(c, pairing, i) ==
    Then(Then(Then(Then(Then(Then(c,
        LAMBDA d : LegEquipment(d, 7)), LegTotalBlock), LegTotalCredit),
        LegTotalPay), LegDuty), LAMBDA d : LegLayover(d, pairing, i))

\* if (!pairing[i + 1].includes("D-END")) {...} else {...}
LegTail(c, pairing, i) ==
    IF LineAt(pairing, i + 1) = Undefined THEN Fail(c, TypeErr)
    ELSE IF ~Includes(LineAt(pairing, i + 1), sDEND) THEN LegNotLast(c)
    ELSE LegLast(c, pairing, i)

\* the leg of line i of the block: [err, reg, leg]
ParseLeg(reg, pairing, i) ==
    Then(Then(Then(Then(Then(Then(Then(Then(
        [err |-> NoError, reg |-> reg, leg |-> NewLeg],
        LegDeadhead), LegDay), LegFlightNumber), LegOriginDestination),
        LegDeparture), LegArrival), LegBlockTime),
        LAMBDA d : LegTail(d, pairing, i))

-----------------------------------------------------------------------------
(* parsePairings, the other parts of a line and the loop over the lines.    *)

\* Check if hotel line.
IsHotelLine(reg) ==
    /\ At(reg, 0) # sDEND
    /\ At(reg, 0) # sTOTALS
    /\ At(reg, 0) # sDashes
    /\ ~MatchDigits(At(reg, 0), 1, Len(At(reg, 0)))

\* index of the first token from idx on that is a phone number (reg.length if none)
RECURSIVE PhoneIndex(_, _)
PhoneIndex(reg, idx) ==
    IF idx < Len(reg) /\ ~MatchPhone(At(reg, idx)) THEN PhoneIndex(reg, idx + 1)
    ELSE idx

\* the Hotel of a hotel line
ParseHotel(reg) ==
    IF At(reg, 0) = sTBD
    THEN [name |-> At(reg, 0), phone |-> sTbdPhone]
    ELSE LET idx == PhoneIndex(reg, 1)
         IN  [name |-> Join(SubSeq(reg, 1, idx), Str1(" ")),
              phone |-> Join(SubSeq(reg, idx + 1, Len(reg)), Str1(","))]

\* pairing[i].search(/^\s*[0-9]{3}-[0-9]{3}-[0-9]{4}\s*$/) != -1
IsPhoneOnlyLine(line) == MatchPhone(Trim(line))

\* Catch phone number for long hotel names (rare).
CatchPhone(c, line) ==
    IF ~IsPhoneOnlyLine(line) THEN c
    ELSE IF c.obj.hotels = <<>> THEN Fail(c, TypeErr)
    ELSE [c EXCEPT !.obj.hotels[Len(c.obj.hotels)].phone = Join(c.reg, Str1("-"))]

\* if (i > 2) { leg line, else hotel line; phone catch }
LegLine(c, l, line) ==
    IF l.err # NoError THEN [c EXCEPT !.err = l.err, !.reg = l.reg]
    ELSE CatchPhone([c EXCEPT !.reg = l.reg, !.obj.legs = Append(c.obj.legs, l.leg)],
                    line)

BodyLine(c, pairing, i) ==
    IF IsLegLine(c.reg) THEN LegLine(c, ParseLeg(c.reg, pairing, i), LineAt(pairing, i))
    ELSE IF IsHotelLine(c.reg) THEN
        CatchPhone([c EXCEPT !.obj.hotels = Append(c.obj.hotels, ParseHotel(c.reg))],
                   LineAt(pairing, i))
    ELSE CatchPhone(c, LineAt(pairing, i))

\* variant: every word of the line is taken for a day
ScanDaysUnchecked(words) == words

\* the days pushed by the scan of the reversed tokens: stop at the first word
\* that is neither a calendar day nor includes "--"
RECURSIVE ScanDays(_)
ScanDays(words) ==
    IF words = <<>> THEN <<>>
    ELSE IF Head(words) \notin calendar /\ ~Includes(Head(words), sDashes) THEN <<>>
    ELSE IF Head(words) \in calendar THEN <<Head(words)>> \o ScanDays(Tail(words))
    ELSE ScanDays(Tail(words))

\* if (i < 6) { let words = reg.reverse(); ... }   reverse() is in place
DaysLine(c) ==
    LET words == Reverse(c.reg)
    IN  [c EXCEPT !.reg = words, !.obj.days = c.obj.days \o ScanDays(words)]

\* Last but one line of pairing block: end time. Format: HHMML
EndLine(c) ==
    IF At(c.reg, 1) = Undefined THEN Fail(c, TypeErr)
    ELSE IF Len(At(c.reg, 1)) = 5 THEN [c EXCEPT !.obj.end = At(c.reg, 1)]
    ELSE LET reg2 == MergeNext(c.reg, 1)
         IN  \* the re-test reads reg[2], the token after the merged one
             IF At(reg2, 2) = Undefined THEN Fail(c, TypeErr)
             ELSE IF Len(At(reg2, 2)) # 5
             THEN Fail(c, Err("Incorrect end time format for pairing."))
             ELSE [c EXCEPT !.reg = reg2, !.obj.end = At(reg2, 1)]

\* Last line of pairing block (TOTALS BLK).
TotalsLine(c) ==
    [c EXCEPT !.obj.tblk = At(c.reg, 2), !.obj.dh = At(c.reg, 4),
              !.obj.cdt = At(c.reg, 9), !.obj.tafb = At(c.reg, 11),
              !.obj.ldgs = At(c.reg, 13)]

\* one iteration of the loop over the lines of a block, for a line that is
\* neither whitespace nor empty of tokens
ParseLine(c0, pairing, i) ==
    IF i = 0 THEN Then([c0 EXCEPT !.reg = Tokenize(LineAt(pairing, i))], HeaderLine)
    ELSE
    When(i = Len(pairing) - 1,
        When(i = Len(pairing) - 2,
            When(i < 6,
                When(i > 2,
                    When(i = 1, [c0 EXCEPT !.reg = Tokenize(LineAt(pairing, i))],
                         BaseLine),
                    LAMBDA d : BodyLine(d, pairing, i)),
                DaysLine),
            EndLine),
        TotalsLine)

\* for (let i = 0; i < pairing.length; i++): whitespace lines are skipped and
\* a line without tokens ends the loop
RECURSIVE ParseLines(_, _, _)
ParseLines(c, pairing, i) ==
    IF c.err # NoError \/ i >= Len(pairing) THEN c
    ELSE IF ~HasNonWhitespace(LineAt(pairing, i)) THEN ParseLines(c, pairing, i + 1)
    ELSE IF Tokenize(LineAt(pairing, i)) = <<>> THEN c
    ELSE ParseLines(ParseLine(c, pairing, i), pairing, i + 1)

-----------------------------------------------------------------------------
(* calcLength and the body of the loop over the blocks.                     *)

DigitValue(ch) == CHOOSE v \in 0..9 : <<"0", "1", "2", "3", "4", "5", "6", "7", "8", "9">>[v + 1] = ch

\* the value of a run of digits
RECURSIVE DigitsValue(_)
DigitsValue(s) ==
    IF s = <<>> THEN 0
    ELSE 10 * DigitsValue(SubSeq(s, 1, Len(s) - 1)) + DigitValue(s[Len(s)])

\* parseInt: the value of the leading digits, NaN when there are none
ParseInt(s) ==
    IF DigitRun(s) = 0 THEN NaN ELSE DigitsValue(SubSeq(s, 1, DigitRun(s)))

\* variant: the days from the first to the last leg without the wrap of the week
calcLengthNoWrap(pairing) ==
    LET first == pairing.legs[1].day
        last == pairing.legs[Len(pairing.legs)].day
        weekday == DayIndexOf(first) # 0 - 1
        firstD == IF weekday THEN DayIndexOf(first) ELSE ParseInt(first)
        lastD == IF weekday THEN DayIndexOf(last) ELSE ParseInt(last)
    IN  IF ~weekday /\ (firstD = NaN \/ lastD = NaN) THEN NaN
        ELSE lastD - firstD + 1

\* calcLength(pairing), for a pairing with at least one leg
calcLength(pairing) ==
    LET first == pairing.legs[1].day
        last == pairing.legs[Len(pairing.legs)].day
        weekday == DayIndexOf(first) # 0 - 1
        firstD == IF weekday THEN DayIndexOf(first) ELSE ParseInt(first)
        lastD == IF weekday THEN DayIndexOf(last) ELSE ParseInt(last)
        numDays == IF lastD <= firstD THEN lastD - firstD + 7 ELSE lastD - firstD
    IN  \* an operand that is NaN makes the result NaN
        IF ~weekday /\ (firstD = NaN \/ lastD = NaN) THEN NaN
        ELSE (numDays % 7) + 1

\* pairingObj.length = calcLength(pairingObj), after the lines of the block
SetLength(c) ==
    IF c.err # NoError THEN [err |-> c.err, obj |-> c.obj]
    \* calcLength reads pairing.legs[0].day
    ELSE IF c.obj.legs = <<>> THEN [err |-> TypeErr, obj |-> c.obj]
    ELSE [err |-> NoError, obj |-> [c.obj EXCEPT !.length = calcLength(c.obj)]]

\* one iteration of the loop over the blocks: [err, obj]
ParseBlock(pairing, cs) ==
    SetLength(ParseLines([err |-> NoError, reg |-> <<>>,
                          obj |-> [NewPairing EXCEPT !.codeshare = cs]], pairing, 0))

-----------------------------------------------------------------------------
(* buildPairings.                                                           *)

\* monthsOfTheYear.some(v => line.includes(v))
IsMonthLine(line) == \E k \in 1..Len(monthsOfTheYear) : Includes(line, monthsOfTheYear[k])

IsSeparatorLine(line) == Includes(line, sSeparator)

\* variant: lines containing STANDOVER are appended
IsDroppedLineKeepStandover(line) ==
    \/ ~HasNonWhitespace(line)
    \/ line = <<>>
    \/ Includes(line, sBlank)

\* the lines that are not appended to a block
IsDroppedLine(line) ==
    \/ ~HasNonWhitespace(line)
    \/ line = <<>>
    \/ Includes(line, sBlank)
    \/ Includes(line, sSTANDOVER)

\* one iteration of the loop of buildPairings: b is [flag, pairing, pairingArray]
BuildLine(line, b) ==
    \* Detect new column. First word is a month.
    IF IsMonthLine(line) THEN [b EXCEPT !.flag = FALSE]
    \* Detect '='. Now inside the first pairing.
    ELSE IF IsSeparatorLine(line) /\ ~b.flag THEN [b EXCEPT !.flag = TRUE]
    ELSE IF b.flag THEN
        IF IsSeparatorLine(line)
        \* End of pairing. Save and reset.
        THEN [b EXCEPT !.pairingArray = Append(b.pairingArray, b.pairing),
                       !.pairing = <<>>]
        ELSE IF ~IsDroppedLine(line)
        THEN [b EXCEPT !.pairing = Append(b.pairing, line)]
        ELSE b
    ELSE b

\* the iterations for lines lo..hi in order, applied to b: those of the first
\* half of the range, then those of the second half applied to their outcome
RECURSIVE BuildRange(_, _, _, _)
BuildRange(lines, lo, hi, b) ==
    IF lo > hi THEN b
    ELSE IF lo = hi THEN BuildLine(lines[lo], b)
    ELSE CHOOSE r \in {BuildRange(lines, ((lo + hi) \div 2) + 1, hi, half) :
                          half \in {BuildRange(lines, lo, (lo + hi) \div 2, b)}} : TRUE

buildPairings(lines) ==
    BuildRange(lines, 1, Len(lines),
               [flag |-> FALSE, pairing |-> <<>>, pairingArray |-> <<>>]).pairingArray

-----------------------------------------------------------------------------
(* getPDFPairings: the check of the first line and the month, year and     *)
(* codeshare read from it.                                                  *)

sPilot == <<" ", "P", "i", "l", "o", "t", " ">>
sPairings == <<" ", "P", "a", "i", "r", "i", "n", "g", "s", " ">>
sCentury == <<" ", "2", "0">>
Codeshares == {<<"A", "A">>, <<"D", "L">>, <<"U", "A">>}

\* variant: a title check that does not look for ' Pairings '
TitleMatchesMonthNoPairings(line, m) ==
    LET p == Len(m)
    IN  /\ Len(line) >= p + 14
        /\ SubSeq(line, 1, p) = m
        /\ SubSeq(line, p + 1, p + 3) = sCentury
        /\ line[p + 4] \in DigitChars
        /\ line[p + 5] \in DigitChars
        /\ SubSeq(line, p + 6, p + 12) = sPilot
        /\ SubSeq(line, p + 13, p + 14) \in Codeshares

\* line matches  month ' 20' digit digit ' Pilot ' (AA|DL|UA) ' Pairings ' .*
\* when its month is monthsOfTheYear[k]
TitleMatchesMonth(line, m) ==
    LET p == Len(m)
    IN  /\ Len(line) >= p + 24
        /\ SubSeq(line, 1, p) = m
        /\ SubSeq(line, p + 1, p + 3) = sCentury
        /\ line[p + 4] \in DigitChars
        /\ line[p + 5] \in DigitChars
        /\ SubSeq(line, p + 6, p + 12) = sPilot
        /\ SubSeq(line, p + 13, p + 14) \in Codeshares
        /\ SubSeq(line, p + 15, p + 24) = sPairings

\* firstLine.search(/^(January|...|Ocotber) (20)(\d{2}) Pilot (AA|DL|UA) Pairings .*$/) != -1
TitleMatches(line) ==
    \E k \in 1..Len(monthsOfTheYear) : TitleMatchesMonth(line, monthsOfTheYear[k])

upperLetters == <<"A", "B", "C", "D", "E", "F", "G", "H", "I", "J", "K", "L", "M",
                  "N", "O", "P", "Q", "R", "S", "T", "U", "V", "W", "X", "Y", "Z">>
lowerLetters == <<"a", "b", "c", "d", "e", "f", "g", "h", "i", "j", "k", "l", "m",
                  "n", "o", "p", "q", "r", "s", "t", "u", "v", "w", "x", "y", "z">>

\* String.prototype.toUpperCase
ToUpperCase(s) ==
    [k \in 1..Len(s) |->
        IF s[k] \in LowerChars
        THEN upperLetters[CHOOSE n \in 1..26 : lowerLetters[n] = s[k]]
        ELSE s[k]]

sOCO == <<"O", "C", "O">>
sOCT == <<"O", "C", "T">>

\* variant: the month code without the replacement of "OCO"
TitleMonthUnfixed(firstLine) ==
    ToUpperCase(Substring(At(Split(firstLine, " "), 0), 0, 3))

\* month = firstLine.split(" ")[0].substring(0, 3).toUpperCase(); "OCO" becomes "OCT"
TitleMonth(firstLine) ==
    LET m == ToUpperCase(Substring(At(Split(firstLine, " "), 0), 0, 3))
    IN  IF m = sOCO THEN sOCT ELSE m

\* year = firstLine.split(" ")[1].substring(2, 4)
TitleYear(firstLine) == Substring(At(Split(firstLine, " "), 1), 2, 4)

\* codeshare = firstLine.split(" ")[3]
TitleCodeshare(firstLine) == At(Split(firstLine, " "), 3)

-----------------------------------------------------------------------------
(* readFile: the insertion of a parsed document into allPairingsJSON.       *)

\* const monthArray = ["", "JAN", ..., "DEC"]
monthArray ==
    << <<>>, <<"J", "A", "N">>, <<"F", "E", "B">>, <<"M", "A", "R">>,
       <<"A", "P", "R">>, <<"M", "A", "Y">>, <<"J", "U", "N">>, <<"J", "U", "L">>,
       <<"A", "U", "G">>, <<"S", "E", "P">>, <<"O", "C", "T">>, <<"N", "O", "V">>,
       <<"D", "E", "C">> >>

\* monthArray.indexOf(m)
MonthIndexOf(m) ==
    IF \E k \in 1..Len(monthArray) : monthArray[k] = m
    THEN (CHOOSE k \in 1..Len(monthArray) : monthArray[k] = m) - 1
    ELSE 0 - 1

\* variant: allPairingsJSON[j][2].concat(pairingObjects[2])
MergeByConcat(list, new) == list \o new

\* If pairing ID doesn't exist, insert: the list after the loop over k
RECURSIVE MergeById(_, _)
MergeById(list, new) ==
    IF new = <<>> THEN list
    ELSE IF \E k \in 1..Len(list) : list[k].id = Head(new).id
         THEN MergeById(list, Tail(new))
         ELSE MergeById(Append(list, Head(new)), Tail(new))

\* the loop over allPairingsJSON from index jj (0-based) on
RECURSIVE InsertFrom(_, _, _)
InsertFrom(all, po, jj) ==
    IF jj >= Len(all) THEN all
    ELSE LET entry == all[jj + 1]
             newYear == ParseInt(po[2])
             oldYear == ParseInt(entry[2])
             comparable == newYear # NaN /\ oldYear # NaN
             last == IF jj = Len(all) - 1
                     \* Insert at end; the loop then meets the entry it pushed
                     THEN InsertFrom(Append(all, po), po, jj + 1)
                     ELSE InsertFrom(all, po, jj + 1)
         IN  IF comparable /\ newYear > oldYear THEN SpliceIn(all, jj, po)
             ELSE IF comparable /\ newYear = oldYear THEN
                 IF MonthIndexOf(po[1]) = MonthIndexOf(entry[1])
                 THEN [all EXCEPT ![jj + 1][3] = MergeById(entry[3], po[3])]
                 ELSE IF MonthIndexOf(po[1]) > MonthIndexOf(entry[1])
                 THEN SpliceIn(all, jj, po)
                 ELSE last
             ELSE last

\* allPairingsJSON after the then-callback of readFile stored pairingObjects
InsertPairings(all, po) ==
    IF all = <<>> THEN <<po>> ELSE InsertFrom(all, po, 0)

-----------------------------------------------------------------------------
(* The documents read: lines of a synthetic pairing file in the layout the  *)
(* parser expects, and defective variants of them.                          *)

\* "May 2023 Pilot AA Pairings Effective"
lnTitleMay ==
    <<"M", "a", "y", " ", "2", "0", "2", "3", " ", "P", "i", "l", "o",
      "t", " ", "A", "A", " ", "P", "a", "i", "r", "i", "n", "g", "s",
      " ", "E", "f", "f", "e", "c", "t", "i", "v", "e">>
\* "Ocotber 2022 Pilot DL Pairings Final"
lnTitleOct ==
    <<"O", "c", "o", "t", "b", "e", "r", " ", "2", "0", "2", "2", " ",
      "P", "i", "l", "o", "t", " ", "D", "L", " ", "P", "a", "i", "r",
      "i", "n", "g", "s", " ", "F", "i", "n", "a", "l">>
\* "May 2023 Pilot AA Schedule"
lnTitleNoPairings ==
    <<"M", "a", "y", " ", "2", "0", "2", "3", " ", "P", "i", "l", "o",
      "t", " ", "A", "A", " ", "S", "c", "h", "e", "d", "u", "l", "e">>
\* "May 2023 Page 2"
lnColumn ==
    <<"M", "a", "y", " ", "2", "0", "2", "3", " ", "P", "a", "g", "e",
      " ", "2">>
\* "-- STANDOVER 1230 --"
lnStandover ==
    <<"-", "-", " ", "S", "T", "A", "N", "D", "O", "V", "E", "R", " ",
      "1", "2", "3", "0", " ", "-", "-">>
\* "   "
lnSpaces ==
    <<" ", " ", " ">>
\* "E1234 BASE REPT: 0500L"
lnHeader ==
    <<"E", "1", "2", "3", "4", " ", "B", "A", "S", "E", " ", "R", "E",
      "P", "T", ":", " ", "0", "5", "0", "0", "L">>
\* "12345 BASE REPT: 0500L"
lnHeaderDigits ==
    <<"1", "2", "3", "4", "5", " ", "B", "A", "S", "E", " ", "R", "E",
      "P", "T", ":", " ", "0", "5", "0", "0", "L">>
\* "E5678 BA SE R EPT: 05 00L"
lnHeaderSplit ==
    <<"E", "5", "6", "7", "8", " ", "B", "A", " ", "S", "E", " ", "R",
      " ", "E", "P", "T", ":", " ", "0", "5", " ", "0", "0", "L">>
\* "E9999 BAXE REPT: 0500L"
lnHeaderBad ==
    <<"E", "9", "9", "9", "9", " ", "B", "A", "X", "E", " ", "R", "E",
      "P", "T", ":", " ", "0", "5", "0", "0", "L">>
\* "E2222 BASE REPT: 0500L"
lnHeaderBadLeg ==
    <<"E", "2", "2", "2", "2", " ", "B", "A", "S", "E", " ", "R", "E",
      "P", "T", ":", " ", "0", "5", "0", "0", "L">>
\* "E3333 BASE REPT: 0600L"
lnHeaderMixed ==
    <<"E", "3", "3", "3", "3", " ", "B", "A", "S", "E", " ", "R", "E",
      "P", "T", ":", " ", "0", "6", "0", "0", "L">>
\* "E7777 BASE REPT: 0700L"
lnHeaderLeft ==
    <<"E", "7", "7", "7", "7", " ", "B", "A", "S", "E", " ", "R", "E",
      "P", "T", ":", " ", "0", "7", "0", "0", "L">>
\* "CA BOS -- -- 1 2"
lnBase ==
    <<"C", "A", " ", "B", "O", "S", " ", "-", "-", " ", "-", "-", " ",
      "1", " ", "2">>
\* "CA ORD -- -- 3"
lnBaseLeft ==
    <<"C", "A", " ", "O", "R", "D", " ", "-", "-", " ", "-", "-", " ",
      "3">>
\* "DAY FLT DEPARTS -- 8 9"
lnHeadings ==
    <<"D", "A", "Y", " ", "F", "L", "T", " ", "D", "E", "P", "A", "R",
      "T", "S", " ", "-", "-", " ", "8", " ", "9">>
\* "DAY FLT DEPARTS -- 1 9"
lnHeadingsRepeat ==
    <<"D", "A", "Y", " ", "F", "L", "T", " ", "D", "E", "P", "A", "R",
      "T", "S", " ", "-", "-", " ", "1", " ", "9">>
\* "MO 4411 BOS-ORD 0600 0800 200 45 E75"
lnLegMO ==
    <<"M", "O", " ", "4", "4", "1", "1", " ", "B", "O", "S", "-", "O",
      "R", "D", " ", "0", "6", "0", "0", " ", "0", "8", "0", "0", " ",
      "2", "0", "0", " ", "4", "5", " ", "E", "7", "5">>
\* "1 4411 BOS-ORD 0600 0800 200 45 E75"
lnLegOne ==
    <<"1", " ", "4", "4", "1", "1", " ", "B", "O", "S", "-", "O", "R",
      "D", " ", "0", "6", "0", "0", " ", "0", "8", "0", "0", " ", "2",
      "0", "0", " ", "4", "5", " ", "E", "7", "5">>
\* "MO 4411 BOS-OR 0600 0800 200 45 E75"
lnLegBadDest ==
    <<"M", "O", " ", "4", "4", "1", "1", " ", "B", "O", "S", "-", "O",
      "R", " ", "0", "6", "0", "0", " ", "0", "8", "0", "0", " ", "2",
      "0", "0", " ", "4", "5", " ", "E", "7", "5">>
\* "MO DH 441 ORD-CMH 0900 1100 200 E75 400 400 400 600 1200"
lnLegMOLast ==
    <<"M", "O", " ", "D", "H", " ", "4", "4", "1", " ", "O", "R", "D",
      "-", "C", "M", "H", " ", "0", "9", "0", "0", " ", "1", "1", "0",
      "0", " ", "2", "0", "0", " ", "E", "7", "5", " ", "4", "0", "0",
      " ", "4", "0", "0", " ", "4", "0", "0", " ", "6", "0", "0", " ",
      "1", "2", "0", "0">>
\* "D-END: 1130L REPT: 0600L"
lnDEndMid ==
    <<"D", "-", "E", "N", "D", ":", " ", "1", "1", "3", "0", "L", " ",
      "R", "E", "P", "T", ":", " ", "0", "6", "0", "0", "L">>
\* "HILTON CMH 614-555-1234"
lnHotel ==
    <<"H", "I", "L", "T", "O", "N", " ", "C", "M", "H", " ", "6", "1",
      "4", "-", "5", "5", "5", "-", "1", "2", "3", "4">>
\* "HILTON CMH 6145551234"
lnHotelNoPhone ==
    <<"H", "I", "L", "T", "O", "N", " ", "C", "M", "H", " ", "6", "1",
      "4", "5", "5", "5", "1", "2", "3", "4">>
\* "TBD"
lnHotelTBD ==
    <<"T", "B", "D">>
\* "TU 4413 CMH-BOS 0600 0800 200 E75 200 200 200 330"
lnLegTU ==
    <<"T", "U", " ", "4", "4", "1", "3", " ", "C", "M", "H", "-", "B",
      "O", "S", " ", "0", "6", "0", "0", " ", "0", "8", "0", "0", " ",
      "2", "0", "0", " ", "E", "7", "5", " ", "2", "0", "0", " ", "2",
      "0", "0", " ", "2", "0", "0", " ", "3", "3", "0">>
\* "SU 4413 CMH-BOS 0600 0800 200 E75 200 200 200 330"
lnLegSU ==
    <<"S", "U", " ", "4", "4", "1", "3", " ", "C", "M", "H", "-", "B",
      "O", "S", " ", "0", "6", "0", "0", " ", "0", "8", "0", "0", " ",
      "2", "0", "0", " ", "E", "7", "5", " ", "2", "0", "0", " ", "2",
      "0", "0", " ", "2", "0", "0", " ", "3", "3", "0">>
\* "D-END: 0815L"
lnDEnd ==
    <<"D", "-", "E", "N", "D", ":", " ", "0", "8", "1", "5", "L">>
\* "TOTALS BLK: 600 DHD: 0 TRIP RIG: 0 CDT: 600 T.A.F.B.: 3015 LDGS: 3"
lnTotals ==
    <<"T", "O", "T", "A", "L", "S", " ", "B", "L", "K", ":", " ", "6",
      "0", "0", " ", "D", "H", "D", ":", " ", "0", " ", "T", "R", "I",
      "P", " ", "R", "I", "G", ":", " ", "0", " ", "C", "D", "T", ":",
      " ", "6", "0", "0", " ", "T", ".", "A", ".", "F", ".", "B", ".",
      ":", " ", "3", "0", "1", "5", " ", "L", "D", "G", "S", ":", " ",
      "3">>

\* "E4444 BASE REPT: 0500L -- 30 31"
lnHeaderDays ==
    <<"E", "4", "4", "4", "4", " ", "B", "A", "S", "E", " ", "R", "E", "P",
      "T", ":", " ", "0", "5", "0", "0", "L", " ", "-", "-", " ", "3", "0",
      " ", "3", "1">>
\* "E5555 BASE REPT: 0500L"
lnHeaderEndSplit ==
    <<"E", "5", "5", "5", "5", " ", "B", "A", "S", "E", " ", "R", "E", "P",
      "T", ":", " ", "0", "5", "0", "0", "L">>
\* "E6666 BASE REPT: 0500L"
lnHeaderShort ==
    <<"E", "6", "6", "6", "6", " ", "B", "A", "S", "E", " ", "R", "E", "P",
      "T", ":", " ", "0", "5", "0", "0", "L">>
\* "E6777 BASE REPT: 0500L"
lnHeaderSeven ==
    <<"E", "6", "7", "7", "7", " ", "B", "A", "S", "E", " ", "R", "E", "P",
      "T", ":", " ", "0", "5", "0", "0", "L">>
\* "E8888 BASE REPT: 0500L"
lnHeaderPhone ==
    <<"E", "8", "8", "8", "8", " ", "B", "A", "S", "E", " ", "R", "E", "P",
      "T", ":", " ", "0", "5", "0", "0", "L">>
\* "E5679 BASE RE PT: 0500L"
lnHeaderRePt ==
    <<"E", "5", "6", "7", "9", " ", "B", "A", "S", "E", " ", "R", "E",
      " ", "P", "T", ":", " ", "0", "5", "0", "0", "L">>
\* "E5680 BASE REPT: 0500L"
lnHeaderFlightNum ==
    <<"E", "5", "6", "8", "0", " ", "B", "A", "S", "E", " ", "R", "E",
      "P", "T", ":", " ", "0", "5", "0", "0", "L">>
\* "MO 44 1A BOS-ORD 0600 0800 200 45 E75"
lnLegSplitNum ==
    <<"M", "O", " ", "4", "4", " ", "1", "A", " ", "B", "O", "S", "-",
      "O", "R", "D", " ", "0", "6", "0", "0", " ", "0", "8", "0", "0",
      " ", "2", "0", "0", " ", "4", "5", " ", "E", "7", "5">>
\* "E5681 BASE REPT: 0500L"
lnHeaderDutySpill ==
    <<"E", "5", "6", "8", "1", " ", "B", "A", "S", "E", " ", "R", "E",
      "P", "T", ":", " ", "0", "5", "0", "0", "L">>
\* "TU 4413 CMH-BOS 0600 0800 200 E75 200 200 200 330 --"
lnLegTUSpill ==
    <<"T", "U", " ", "4", "4", "1", "3", " ", "C", "M", "H", "-", "B",
      "O", "S", " ", "0", "6", "0", "0", " ", "0", "8", "0", "0", " ",
      "2", "0", "0", " ", "E", "7", "5", " ", "2", "0", "0", " ", "2",
      "0", "0", " ", "2", "0", "0", " ", "3", "3", "0", " ", "-", "-">>
\* "D-END: 08 15L"
lnDEndSplit ==
    <<"D", "-", "E", "N", "D", ":", " ", "0", "8", " ", "1", "5", "L">>
\* "HILTON GARDEN INN CMH"
lnHotelLong ==
    <<"H", "I", "L", "T", "O", "N", " ", "G", "A", "R", "D", "E", "N", " ",
      "I", "N", "N", " ", "C", "M", "H">>
\* "614-555-9999"
lnPhone ==
    <<"6", "1", "4", "-", "5", "5", "5", "-", "9", "9", "9", "9">>

\* a block of two duty days: header, base, headings, a leg, the last leg of
\* day one, its D-END line, the hotel, the last leg, the D-END line, TOTALS
Block2(header, headings, leg, hotel, lastLeg) ==
    <<header, lnBase, headings, leg, lnLegMOLast, lnDEndMid, hotel, lastLeg,
      lnDEnd, lnTotals>>

blkGood == Block2(lnHeader, lnHeadings, lnLegMO, lnHotel, lnLegTU)
blkDigits == Block2(lnHeaderDigits, lnHeadings, lnLegMO, lnHotel, lnLegTU)
blkSplit == Block2(lnHeaderSplit, lnHeadingsRepeat, lnLegMO, lnHotelTBD, lnLegSU)
blkBadHeader == Block2(lnHeaderBad, lnHeadings, lnLegMO, lnHotel, lnLegTU)
blkBadLeg == Block2(lnHeaderBadLeg, lnHeadings, lnLegBadDest, lnHotel, lnLegTU)
blkMixed == Block2(lnHeaderMixed, lnHeadings, lnLegOne, lnHotelNoPhone, lnLegTU)

\* a block whose header line carries calendar days
blkHeaderDays == Block2(lnHeaderDays, lnHeadings, lnLegMO, lnHotel, lnLegTU)
\* a block whose header line has REPT split into RE and PT
blkRePt == Block2(lnHeaderRePt, lnHeadings, lnLegMO, lnHotel, lnLegTU)
\* a block with a leg whose flight number is split into 44 and 1A
blkFlightNum ==
    Block2(lnHeaderFlightNum, lnHeadings, lnLegSplitNum, lnHotel, lnLegTU)
\* a block whose very last leg line has a token after the duty time
blkDutySpill ==
    Block2(lnHeaderDutySpill, lnHeadings, lnLegMO, lnHotel, lnLegTUSpill)
\* a block whose end time is split into two tokens
blkEndSplit ==
    <<lnHeaderEndSplit, lnBase, lnHeadings, lnLegMO, lnLegMOLast, lnDEndMid,
      lnHotel, lnLegTU, lnDEndSplit, lnTotals>>
\* blocks of one duty day: six lines with one leg and seven lines with two
blkShort == <<lnHeaderShort, lnBase, lnHeadings, lnLegTU, lnDEnd, lnTotals>>
blkSeven ==
    <<lnHeaderSeven, lnBase, lnHeadings, lnLegMO, lnLegTU, lnDEnd, lnTotals>>
\* a block whose hotel name is long and whose phone number is on the next line
blkPhone ==
    <<lnHeaderPhone, lnBase, lnHeadings, lnLegMO, lnLegMOLast, lnDEndMid,
      lnHotelLong, lnPhone, lnLegTU, lnDEnd, lnTotals>>

BlockPool == {blkGood, blkDigits, blkSplit, blkBadHeader, blkBadLeg, blkMixed}
Titles == {lnTitleMay, lnTitleOct, lnTitleNoPairings}
Layouts == {"plain", "columns", "leftover"}

\* documents hold at most MaxBlocks blocks
MaxBlocks == 2

BlockSeqs == UNION {[1..n -> BlockPool] : n \in 0..MaxBlocks}

\* the blocks of other shapes, read in documents of their own
ShapePool ==
    {blkHeaderDays, blkRePt, blkFlightNum, blkDutySpill, blkEndSplit,
     blkShort, blkSeven, blkPhone}
ShapeSeqs == UNION {[1..n -> ShapePool] : n \in 1..MaxBlocks}

RECURSIVE Flatten(_)
Flatten(ss) == IF ss = <<>> THEN <<>> ELSE Head(ss) \o Flatten(Tail(ss))

\* the lines of a document: "plain" is one column of blocks closed by
\* separator lines; "columns" starts a column (a month line) before every
\* block and has whitespace, STANDOVER and placeholder lines; "leftover" has two lines of a cut-off
\* pairing and a new column before its last block
Doc(title, blocks, layout) ==
    LET n == Len(blocks)
        piece(k) ==
            IF layout = "columns"
            THEN <<lnColumn, sSeparator, Head(blocks[k]), lnSpaces, lnStandover>>
                 \o Tail(blocks[k]) \o <<sBlank, sSeparator, lnSpaces>>
            ELSE IF layout = "leftover" /\ k = n
            THEN <<lnHeaderLeft, lnBaseLeft, lnColumn, sSeparator>>
                 \o blocks[k] \o <<sSeparator>>
            ELSE blocks[k] \o <<sSeparator>>
    IN  <<title>>
        \o (IF layout = "columns" THEN <<>> ELSE <<sSeparator>>)
        \o Flatten([k \in 1..n |-> piece(k)])

\* every title in the plain layout, the May title in every layout, and the
\* blocks of other shapes under the May title in the plain layout
Docs ==
    {Doc(t, bs, "plain") : t \in Titles, bs \in BlockSeqs}
    \cup {Doc(lnTitleMay, bs, l) : bs \in BlockSeqs, l \in Layouts}
    \cup {Doc(lnTitleMay, bs, "plain") : bs \in ShapeSeqs}

\* the pairings parsePairings returns for blocks all of which parse
RECURSIVE ParsedList(_, _)
ParsedList(blocks, cs) ==
    IF blocks = <<>> THEN <<>>
    ELSE <<ParseBlock(Head(blocks), cs).obj>> \o ParsedList(Tail(blocks), cs)

\* the store after one earlier upload of a document holding blkGood
PriorStore ==
    << <<TitleMonth(lnTitleMay), TitleYear(lnTitleMay),
         ParsedList(<<blkGood>>, TitleCodeshare(lnTitleMay))>> >>
InitialStores == {<<>>, PriorStore}

-----------------------------------------------------------------------------
(* The calendar functions gauss, daysInMonth and isLeapYear.                *)

\* isLeapYear: 1 for a leap year and 0 if not
isLeapYear(y) ==
    IF (y % 4 # 0) \/ ((y % 100 = 0) /\ (y % 400 # 0)) THEN 0 ELSE 1

\* daysInMonth
daysInMonth(y, m) ==
    IF m = 2 THEN 28 + isLeapYear(y) ELSE 31 - (((m - 1) % 7) % 2)

\* const commonYears = [0, 3, 3, 6, 1, 4, 6, 2, 5, 0, 3, 5]
commonYears == <<0, 3, 3, 6, 1, 4, 6, 2, 5, 0, 3, 5>>

\* let monthOffset = commonYears[month - 1], plus one in a leap year
MonthOffset(y, m) ==
    IF isLeapYear(y) = 1 THEN (commonYears[m] + 1) % 7 ELSE commonYears[m]

\* gauss: day of the week (0-6 : Su-Sa)
gauss(y, m, d) ==
    (d + MonthOffset(y, m) + (5 * ((y - 1) % 4)) + (4 * ((y - 1) % 100))
       + (6 * ((y - 1) % 400))) % 7

-----------------------------------------------------------------------------
(* The validator verifyPairings with verifyLegs and verifyHotels.  The two  *)
(* helpers are async functions: a call returns a promise, whatever value    *)
(* the promise resolves with.                                               *)

\* String.prototype.search with a literal pattern: first index or -1
Search(s, pat) ==
    IF Includes(s, pat)
    THEN CHOOSE k \in 0..(Len(s) - Len(pat)) :
             /\ SubSeq(s, k + 1, k + Len(pat)) = pat
             /\ \A q \in 0..(k - 1) : SubSeq(s, q + 1, q + Len(pat)) # pat
    ELSE 0 - 1

sTrue == <<"t", "r", "u", "e">>

\* /^[0-9]{4}L$/
MatchTimeL(s) ==
    Len(s) = 5 /\ s[5] = "L" /\ MatchDigits(SubSeq(s, 1, 4), 4, 4)
\* /^[A-Z][0-9]{4}$/
MatchId(s) ==
    Len(s) = 5 /\ s[1] \in UpperChars /\ MatchDigits(SubSeq(s, 2, 5), 4, 4)
\* /^([1-9]|[12][0-9]|3[01])$/
MatchDay(s) == s \in calendar
\* /[0-9]{1,4}$/
EndsWithDigit(s) == Len(s) >= 1 /\ s[Len(s)] \in DigitChars
\* /^[0-9A-Z]{3}|[A-Z]{2}$/
MatchEqp(s) ==
    \/ Len(s) >= 3 /\ AllIn(SubSeq(s, 1, 3), DigitChars \cup UpperChars)
    \/ Len(s) >= 2 /\ AllIn(SubSeq(s, Len(s) - 1, Len(s)), UpperChars)
\* an optional field: if (f != "") { if (f.search(/^[0-9]{lo,4}$/) == -1) ... }
OptionalDigits(f, lo) == f = <<>> \/ MatchDigits(f, lo, 4)

\* the checks verifyLegs makes on one leg
LegVerified(leg) ==
    /\ MatchClass(leg.origin, UpperChars, 3, 3)
    /\ MatchClass(leg.destination, UpperChars, 3, 3)
    /\ \/ MatchDigits(leg.flightNum, 4, 4)
       \/ leg.deadhead /\ EndsWithDigit(leg.flightNum)
    \* leg.day.search(/^[0-7]$/ != 1): the argument is the value true
    /\ \/ \E k \in 1..Len(daysOfTheWeek) : daysOfTheWeek[k] = leg.day
       \/ Search(leg.day, sTrue) # 0
    /\ MatchDigits(leg.depl, 4, 4)
    /\ MatchDigits(leg.arrl, 4, 4)
    /\ MatchDigits(leg.blkt, 2, 4)
    /\ OptionalDigits(leg.grnt, 2)
    /\ MatchEqp(leg.eqp)
    /\ OptionalDigits(leg.tblk, 2)
    /\ OptionalDigits(leg.tcrd, 1)
    /\ OptionalDigits(leg.tpay, 2)
    /\ OptionalDigits(leg.duty, 2)
    /\ OptionalDigits(leg.layo, 2)

\* async function verifyLegs: the promise returned and the value it carries
verifyLegs(legs) ==
    [promise |-> TRUE, value |-> \A k \in 1..Len(legs) : LegVerified(legs[k])]

\* async function verifyHotels: the promise returned and the value it carries
verifyHotels(hotels) ==
    [promise |-> TRUE,
     value |-> \A k \in 1..Len(hotels) : MatchPhone(hotels[k].phone)]

\* the operator ! applied to what a call returned: an object is truthy
Not(v) == IF v.promise THEN FALSE ELSE ~v.value

\* the checks of one loop iteration of verifyPairings: the error thrown, or
\* NoError
VerifyPairing(pairing) ==
    IF ~MatchId(pairing.id) THEN Err("Incorrect ID format.")
    ELSE IF pairing.codeshare \notin Codeshares
        THEN Err("Incorrect codeshare format.")
    ELSE IF \E d \in 1..Len(pairing.days) : ~MatchDay(pairing.days[d])
        THEN Err("Incorrect day format.")
    ELSE IF ~MatchClass(pairing.base, UpperChars, 3, 3)
        THEN Err("Incorrect base format.")
    ELSE IF ~MatchTimeL(pairing.start) THEN Err("Incorrect start time format.")
    ELSE IF ~MatchTimeL(pairing.end) THEN Err("Incorrect end time format.")
    ELSE IF ~MatchDigits(pairing.tblk, 1, 4)
        THEN Err("Incorrect block time format.")
    ELSE IF ~MatchDigits(pairing.dh, 1, 4)
        THEN Err("Incorrect deadhead time format.")
    ELSE IF Not(verifyHotels(pairing.hotels)) THEN Err("Incorrect hotel format.")
    ELSE IF ~MatchDigits(pairing.cdt, 1, 4)
        THEN Err("Incorrect credit time format.")
    ELSE IF ~MatchDigits(pairing.tafb, 1, 5) THEN Err("Incorrect TAFB time format.")
    ELSE IF ~MatchDigits(pairing.ldgs, 1, 2)
        THEN Err("Incorrect number of landings format.")
    ELSE IF Not(verifyLegs(pairing.legs)) THEN Err("Incorrect leg format.")
    ELSE NoError

\* verifyPairings: NoError when it returns true, else the error thrown at the
\* first pairing that fails
verifyPairings(ps) ==
    IF \A k \in 1..Len(ps) : VerifyPairing(ps[k]) = NoError THEN NoError
    ELSE VerifyPairing(ps[CHOOSE k \in 1..Len(ps) :
                              /\ VerifyPairing(ps[k]) # NoError
                              /\ \A q \in 1..(k - 1) : VerifyPairing(ps[q]) = NoError])

-----------------------------------------------------------------------------
(* The state machine of one readFile call: reader.onload, getPDFPairings    *)
(* (title check, buildPairings, parsePairings block by block, return) and   *)
(* the then-callback that stores the result.                                *)

\* getPDFPairings has not resolved
Pending == <<"pending">>

\* verifyPairings has not been called
VerifyIdle == vin = <<>> /\ vout = [called |-> FALSE, err |-> NoError]
\* gauss has not been called
GaussIdle == gin = <<0, 0, 0>> /\ gout = 0 - 1
\* no upload has started: let month = 11, let year = 2022, main() has set
\* pairingsJSON = []
UploadIdle ==
    /\ uploadButton = [disabled |-> FALSE]
    /\ filesList = <<>>
    /\ filesToRead = <<>>
    /\ pairingsJSON = <<>>
    /\ activeMonth = 11
    /\ activeYear = <<"2", "0", "2", "2">>
    /\ pagination = <<>>

\* let flightCount = 0, legCount = 0, numPairings = 0,
\* dayDistribution = [0, 0, 0, 0, 0]; called is set once the loop has run
NewStats ==
    [called |-> FALSE, numPairings |-> 0, flightCount |-> 0, legCount |-> 0,
     dayDistribution |-> <<0, 0, 0, 0, 0>>]

\* displayStats has not run
StatsIdle == filtered = <<>> /\ stats = NewStats

\* calcLength has not been called
LengthIdle == lengthIn = NewPairing /\ lengthOut = [called |-> FALSE, value |-> 0]

\* the module-level variables before any call of parsePairings: pairings is
\* no array yet (reference 0)
NewGlobals ==
    [pairings |-> 0, pairingObj |-> NewPairing, pairingStrings |-> <<>>,
     flag |-> FALSE, pairingStr |-> <<>>, hotelName |-> <<>>]

\* readFiles has not been called
ModuleIdle == readers = <<>> /\ heap = <<>> /\ globals = NewGlobals

\* ["BOS", "CMH", "DCA", "EWR", "IND", "LGA", "ORD", "PHL", "PIT", "SDF"]
baseCodes ==
    << <<"B", "O", "S">>, <<"C", "M", "H">>, <<"D", "C", "A">>,
       <<"E", "W", "R">>, <<"I", "N", "D">>, <<"L", "G", "A">>,
       <<"O", "R", "D">>, <<"P", "H", "L">>, <<"P", "I", "T">>,
       <<"S", "D", "F">> >>

\* let filter = {...}: bases is an array of its own (basesIsIATA: the array
\* filter.bases refers to is the array basesIATA); the fields avoidAirports,
\* includeAirports and the three ...Legs flags keep these values
NewFilter ==
    [codeshares |-> << <<"A", "A">>, <<"D", "L">>, <<"U", "A">> >>,
     bases |-> baseCodes, basesIsIATA |-> FALSE,
     daysOfTheWeek |-> << <<"M", "O">>, <<"T", "U">>, <<"W", "E">>,
                          <<"T", "H">>, <<"F", "R">>, <<"S", "A">>,
                          <<"S", "U">> >>,
     pairingLength |-> <<0 - 1, 0 - 1>>, startTime |-> <<0 - 1, 0 - 1>>,
     endTime |-> <<0 - 1, 0 - 1>>, credit |-> <<0 - 1, 0 - 1>>,
     tafb |-> <<0 - 1, 0 - 1>>, tblk |-> <<0 - 1, 0 - 1>>,
     legs |-> <<0 - 1, 0 - 1>>, landings |-> <<0 - 1, 0 - 1>>,
     deadheads |-> <<0 - 1, 0 - 1>>, deadheadTime |-> <<0 - 1, 0 - 1>>,
     layoverTime |-> <<0 - 1, 0 - 1>>, overnights |-> FALSE]

\* getPairings has not been called and no setting was saved
FilterIdle ==
    /\ filter = NewFilter
    /\ jsonList = <<>>
    /\ shown = [called |-> FALSE, pairings |-> <<>>]

\* the filter menu as built: every base button active, no click so far
MenuIdle ==
    /\ basesIATA = baseCodes
    /\ buttons = {baseCodes[k] : k \in 1..Len(baseCodes)}
    /\ pendingClick = 0
    /\ timers = <<>>
    /\ clicks = <<>>
    /\ ran = <<>>

Init ==
    /\ MenuIdle
    /\ FilterIdle
    /\ ModuleIdle
    /\ LengthIdle
    /\ pc = "idle"
    /\ text = <<>>
    /\ month = <<>>
    /\ year = <<>>
    /\ codeshare = <<>>
    /\ builtPairings = <<>>
    /\ j = 0
    /\ pairings = <<>>
    /\ result = Pending
    /\ error = NoError
    /\ settled = "pending"
    /\ allPairingsJSON \in InitialStores
    /\ VerifyIdle
    /\ GaussIdle
    /\ UploadIdle
    /\ StatsIdle

\* reader.onload: getPDFPairings is called and getPDFText returns the text
ReadFile ==
    /\ pc = "idle"
    /\ \E doc \in Docs : text' = doc
    /\ pc' = "title"
    /\ UNCHANGED <<month, year, codeshare, builtPairings, j, pairings, result,
                   error, settled, allPairingsJSON, verifyVars, statsVars, gaussVars,
                   uploadVars, lengthVars, moduleVars, filterVars, menuVars>>

\* getPDFPairings: check first line to see if it is a pairing file
GetPDFPairings ==
    /\ pc = "title"
    /\ IF ~TitleMatches(text[1])
       THEN /\ result' = <<>>
            /\ pc' = "resolved"
            /\ UNCHANGED <<month, year, codeshare>>
       ELSE /\ month' = TitleMonth(text[1])
            /\ year' = TitleYear(text[1])
            /\ codeshare' = TitleCodeshare(text[1])
            /\ pc' = "build"
            /\ UNCHANGED result
    /\ UNCHANGED <<text, builtPairings, j, pairings, error, settled,
                   allPairingsJSON, verifyVars, statsVars, gaussVars,
                   uploadVars, lengthVars, moduleVars, filterVars, menuVars>>

\* await buildPairings(text), then the first statements of parsePairings
BuildPairings ==
    /\ pc = "build"
    /\ builtPairings' = buildPairings(text)
    /\ pairings' = <<>>
    /\ j' = 0
    /\ pc' = "parse"
    /\ UNCHANGED <<text, month, year, codeshare, result, error, settled,
                   allPairingsJSON, verifyVars, statsVars, gaussVars,
                   uploadVars, lengthVars, moduleVars, filterVars, menuVars>>

\* variant: a throw is caught and the pairings parsed so far are returned
ParsePairingsBlockPartial ==
    /\ pc = "parse"
    /\ j < Len(builtPairings)
    /\ LET r == ParseBlock(builtPairings[j + 1], codeshare)
       IN  IF r.err # NoError
           THEN /\ result' = <<month, year, pairings>>
                /\ pc' = "resolved"
                /\ UNCHANGED <<pairings, j>>
           ELSE /\ pairings' = Append(pairings, r.obj)
                /\ j' = j + 1
                /\ UNCHANGED <<result, pc>>
    /\ UNCHANGED <<text, month, year, codeshare, builtPairings, error, settled,
                   allPairingsJSON, verifyVars, statsVars, gaussVars,
                   uploadVars, lengthVars, moduleVars, filterVars, menuVars>>

\* parsePairings: one iteration of the loop over the blocks; a throw rejects
\* the promise of getPDFPairings, and readFile attaches no rejection handler
ParsePairingsBlock ==
    /\ pc = "parse"
    /\ j < Len(builtPairings)
    /\ LET r == ParseBlock(builtPairings[j + 1], codeshare)
       IN  IF r.err # NoError
           THEN /\ error' = r.err
                /\ pc' = "rejected"
                /\ UNCHANGED <<pairings, j>>
           ELSE /\ pairings' = Append(pairings, r.obj)
                /\ j' = j + 1
                /\ UNCHANGED <<error, pc>>
    /\ UNCHANGED <<text, month, year, codeshare, builtPairings, result, settled,
                   allPairingsJSON, verifyVars, statsVars, gaussVars,
                   uploadVars, lengthVars, moduleVars, filterVars, menuVars>>

\* parsePairings returns and getPDFPairings resolves with [month, year, pairings]
ParsePairingsReturn ==
    /\ pc = "parse"
    /\ j = Len(builtPairings)
    /\ result' = <<month, year, pairings>>
    /\ pc' = "resolved"
    /\ UNCHANGED <<text, month, year, codeshare, builtPairings, j, pairings,
                   error, settled, allPairingsJSON, verifyVars, statsVars, gaussVars,
                   uploadVars, lengthVars, moduleVars, filterVars, menuVars>>

\* readFile: the then-callback of getPDFPairings
ReadFileThen ==
    /\ pc = "resolved"
    /\ IF Len(result) = 0
       THEN /\ settled' = "false"
            /\ UNCHANGED allPairingsJSON
       ELSE /\ allPairingsJSON' = InsertPairings(allPairingsJSON, result)
            /\ settled' = "true"
    /\ pc' = "done"
    /\ UNCHANGED <<text, month, year, codeshare, builtPairings, j, pairings,
                   result, error, verifyVars, statsVars, gaussVars,
                   uploadVars, lengthVars, moduleVars, filterVars, menuVars>>

Next ==
    \/ ReadFile
    \/ GetPDFPairings
    \/ BuildPairings
    \/ ParsePairingsBlock
    \/ ParsePairingsReturn
    \/ ReadFileThen

Spec == Init /\ [][Next]_vars

-----------------------------------------------------------------------------
(* gauss applied to the dates of some years.                                *)

\* the one readFile call of Spec has not started
ReadFileIdle ==
    /\ pc = "idle"
    /\ text = <<>>
    /\ month = <<>>
    /\ year = <<>>
    /\ codeshare = <<>>
    /\ builtPairings = <<>>
    /\ j = 0
    /\ pairings = <<>>
    /\ result = Pending
    /\ error = NoError
    /\ settled = "pending"

\* no document has been read
ParseIdle ==
    /\ ReadFileIdle
    /\ allPairingsJSON = <<>>

\* years 1, 4 and 400, century years, and common and leap years of this century
GaussYears == {1, 4, 100, 400, 1900, 2000, 2023, 2024}

\* the arguments are a date of the calendar; gauss has not been called
InitGauss ==
    /\ MenuIdle
    /\ FilterIdle
    /\ ModuleIdle
    /\ LengthIdle
    /\ ParseIdle
    /\ VerifyIdle
    /\ UploadIdle
    /\ StatsIdle
    /\ \E y \in GaussYears, m \in 1..12 :
           \E d \in 1..daysInMonth(y, m) : gin = <<y, m, d>>
    /\ gout = 0 - 1

\* the call gauss(year, month, day)
Gauss ==
    /\ gout = 0 - 1
    /\ gout' = gauss(gin[1], gin[2], gin[3])
    /\ UNCHANGED <<parseVars, verifyVars, statsVars, uploadVars, gin, lengthVars, moduleVars,
                   filterVars, menuVars>>

NextGauss == Gauss

SpecGauss == InitGauss /\ [][NextGauss]_vars

-----------------------------------------------------------------------------
(* verifyPairings applied to lists of pairings: pairings the parser builds  *)
(* and copies of one of them with a field changed.                          *)

pGood == ParseBlock(blkGood, TitleCodeshare(lnTitleMay)).obj
pDigits == ParseBlock(blkDigits, TitleCodeshare(lnTitleMay)).obj
pSplit == ParseBlock(blkSplit, TitleCodeshare(lnTitleMay)).obj
pMixed == ParseBlock(blkMixed, TitleCodeshare(lnTitleMay)).obj

sPhoneUndashed == <<"1", "2", "3", "4", "5", "6", "7", "8", "9", "0">>

VerifyPool ==
    {pGood, pDigits, pSplit, pMixed,
     [pGood EXCEPT !.hotels[1].phone = sPhoneUndashed],
     [pGood EXCEPT !.hotels = <<>>],
     [pGood EXCEPT !.legs[1].origin = <<"B", "O">>],
     [pGood EXCEPT !.legs[3].depl = <<"6", "0", "0">>],
     [pGood EXCEPT !.codeshare = <<"X", "X">>],
     [pGood EXCEPT !.days = << <<"3", "2">> >>],
     [pGood EXCEPT !.ldgs = <<"1", "2", "3">>]}

\* lists of at most MaxVerified pairings
MaxVerified == 2
VerifyInputs == UNION {[1..n -> VerifyPool] : n \in 0..MaxVerified}

\* the argument is one of the lists; verifyPairings has not been called
InitVerify ==
    /\ MenuIdle
    /\ FilterIdle
    /\ ModuleIdle
    /\ LengthIdle
    /\ ParseIdle
    /\ GaussIdle
    /\ UploadIdle
    /\ StatsIdle
    /\ vin \in VerifyInputs
    /\ vout = [called |-> FALSE, err |-> NoError]

\* the call verifyPairings(pairings)
VerifyPairings ==
    /\ ~vout.called
    /\ vout' = [called |-> TRUE, err |-> verifyPairings(vin)]
    /\ UNCHANGED <<parseVars, gaussVars, statsVars, uploadVars, vin, lengthVars, moduleVars,
                   filterVars, menuVars>>

NextVerify == VerifyPairings

SpecVerify == InitVerify /\ [][NextVerify]_vars

-----------------------------------------------------------------------------
(* uploadFiles with readFiles and readFile, changeMonthYear, deleteData and *)
(* unlockData: the upload button, the accepted set, the active pairing list *)
(* pairingsJSON and the active month and year.  pairingsJSON references the *)
(* list of an entry of allPairingsJSON, so it is held as the month and year *)
(* of that entry.                                                           *)

\* the value parsePairings returns for the blocks from index k (1-based) on,
\* or the error it throws
RECURSIVE parsePairings(_, _, _, _)
parsePairings(pairArr, cs, k, acc) ==
    IF k > Len(pairArr) THEN [err |-> NoError, pairings |-> acc]
    ELSE IF ParseBlock(pairArr[k], cs).err # NoError
         THEN [err |-> ParseBlock(pairArr[k], cs).err, pairings |-> <<>>]
         ELSE parsePairings(pairArr, cs, k + 1,
                            Append(acc, ParseBlock(pairArr[k], cs).obj))

\* how the promise of getPDFPairings settles for the lines of a document
getPDFPairings(lines) ==
    IF ~TitleMatches(lines[1]) THEN [rejected |-> FALSE, value |-> <<>>]
    ELSE IF parsePairings(buildPairings(lines), TitleCodeshare(lines[1]), 1,
                          <<>>).err # NoError
         THEN [rejected |-> TRUE, value |-> <<>>]
         ELSE [rejected |-> FALSE,
               value |-> <<TitleMonth(lines[1]), TitleYear(lines[1]),
                           parsePairings(buildPairings(lines),
                                         TitleCodeshare(lines[1]), 1,
                                         <<>>).pairings>>]

\* the files the user can choose, and the text getPDFText returns for each
Files == {"may.pdf", "may2.pdf", "oct.pdf", "schedule.pdf", "broken.pdf"}
FileText(file) ==
    CASE file = "may.pdf" -> Doc(lnTitleMay, <<blkGood>>, "plain")
      [] file = "may2.pdf" -> Doc(lnTitleMay, <<blkSplit>>, "plain")
      [] file = "oct.pdf" -> Doc(lnTitleOct, <<blkGood>>, "plain")
      [] file = "schedule.pdf" -> Doc(lnTitleNoPairings, <<blkGood>>, "plain")
      [] file = "broken.pdf" -> Doc(lnTitleMay, <<blkGood, blkBadHeader>>, "plain")

\* how getPDFPairings settles for each file
FileOutcome == [file \in Files |-> getPDFPairings(FileText(file))]

\* an upload reads at most MaxFiles files
MaxFiles == 2
FileLists == UNION {[1..n -> Files] : n \in 1..MaxFiles}

lowerCaseOf(ch) ==
    IF ch \in UpperChars
    THEN lowerLetters[CHOOSE n \in 1..26 : upperLetters[n] = ch]
    ELSE ch
\* String.prototype.toLowerCase
ToLowerCase(s) == [k \in 1..Len(s) |-> lowerCaseOf(s[k])]

sHyphen == <<"-">>
sTwenty == <<"2", "0">>

\* Number.prototype.toString of a natural number
RECURSIVE NumberToString(_)
NumberToString(n) ==
    IF n < 10 THEN <<CHOOSE ch \in DigitChars : DigitValue(ch) = n>>
    ELSE NumberToString(n \div 10)
         \o <<CHOOSE ch \in DigitChars : DigitValue(ch) = n % 10>>

\* updatePagination: the link text of an entry, e.g. May-23
PageLink(entry) ==
    <<entry[1][1]>> \o ToLowerCase(SubstringFrom(entry[1], 1)) \o sHyphen
        \o entry[2]
updatePagination(all) == [k \in 1..Len(all) |-> PageLink(all[k])]

\* main: the link text of an entry loaded from the database, e.g. MAY-23
MainPageLink(entry) == entry[1] \o sHyphen \o entry[2]

\* pairingsJSON = allPairingsJSON[0][2]: the reference to the list of entry 0
FirstList(all) == <<all[1][1], all[1][2]>>

\* the index (1-based) of the first entry with month code m and year y, or 0
FindEntry(all, m, y) ==
    IF \E k \in 1..Len(all) : all[k][1] = m /\ all[k][2] = y
    THEN CHOOSE k \in 1..Len(all) :
             /\ all[k][1] = m /\ all[k][2] = y
             /\ \A q \in 1..(k - 1) : ~(all[q][1] = m /\ all[q][2] = y)
    ELSE 0

\* the stores unlockData can download
UnlockStores ==
    {InsertPairings(<<>>, FileOutcome["oct.pdf"].value),
     InsertPairings(InsertPairings(<<>>, FileOutcome["oct.pdf"].value),
                    FileOutcome["may2.pdf"].value)}

\* main: the database held nothing, or the store of an earlier session
InitUpload ==
    /\ MenuIdle
    /\ FilterIdle
    /\ ModuleIdle
    /\ LengthIdle
    /\ ReadFileIdle
    /\ VerifyIdle
    /\ GaussIdle
    /\ StatsIdle
    /\ uploadButton = [disabled |-> FALSE]
    /\ filesList = <<>>
    /\ filesToRead = <<>>
    /\ allPairingsJSON \in InitialStores
    /\ IF allPairingsJSON = <<>>
       THEN /\ pairingsJSON = <<>>
            /\ activeMonth = 11
            /\ activeYear = <<"2", "0", "2", "2">>
            /\ pagination = <<>>
       ELSE /\ pairingsJSON = FirstList(allPairingsJSON)
            /\ activeYear = sTwenty \o allPairingsJSON[1][2]
            /\ activeMonth = MonthIndexOf(allPairingsJSON[1][1])
            /\ pagination = [k \in 1..Len(allPairingsJSON) |->
                                 MainPageLink(allPairingsJSON[k])]

\* uploadFiles up to the call of readFiles: the button is disabled and every
\* file gets a readFile promise
UploadFiles ==
    /\ ~uploadButton.disabled
    /\ \E fl \in FileLists :
           /\ filesList' = fl
           /\ filesToRead' = [k \in 1..Len(fl) |-> "reading"]
    /\ uploadButton' = [disabled |-> TRUE]
    /\ UNCHANGED <<parseVars, verifyVars, statsVars, gaussVars, pairingsJSON, activeMonth,
                   activeYear, pagination, lengthVars, moduleVars,
                   filterVars, menuVars>>

\* readFile: reader.onload of file i, getPDFPairings and its then-callback.
\* When getPDFPairings rejects no callback runs and the promise of readFile
\* stays pending.
ReadFileOnload(i) ==
    /\ i \in 1..Len(filesToRead)
    /\ filesToRead[i] = "reading"
    /\ LET pairingObjects == FileOutcome[filesList[i]]
       IN  IF pairingObjects.rejected
           THEN /\ filesToRead' = [filesToRead EXCEPT ![i] = "pending"]
                /\ UNCHANGED allPairingsJSON
           ELSE IF Len(pairingObjects.value) = 0
           THEN /\ filesToRead' = [filesToRead EXCEPT ![i] = "false"]
                /\ UNCHANGED allPairingsJSON
           ELSE /\ allPairingsJSON' =
                       InsertPairings(allPairingsJSON, pairingObjects.value)
                /\ filesToRead' = [filesToRead EXCEPT ![i] = "true"]
    /\ UNCHANGED <<readFileVars, verifyVars, statsVars, gaussVars, uploadButton, filesList,
                   pairingsJSON, activeMonth, activeYear, pagination,
                   lengthVars, moduleVars, filterVars, menuVars>>

\* uploadFiles: the then-callback of readFiles (Promise.all of the readFile
\* promises)
UploadFilesThen ==
    /\ Len(filesToRead) > 0
    /\ \A k \in 1..Len(filesToRead) : filesToRead[k] \in {"true", "false"}
    /\ uploadButton' = [disabled |-> FALSE]
    /\ IF \A k \in 1..Len(filesToRead) : filesToRead[k] # "false"
       THEN /\ pagination' = updatePagination(allPairingsJSON)
            /\ IF Len(allPairingsJSON) # 0
               THEN /\ pairingsJSON' = FirstList(allPairingsJSON)
                    /\ activeYear' = sTwenty \o allPairingsJSON[1][2]
                    /\ activeMonth' = MonthIndexOf(allPairingsJSON[1][1])
               ELSE UNCHANGED <<pairingsJSON, activeYear, activeMonth>>
       ELSE IF \E k \in 1..Len(filesToRead) : filesToRead[k] = "true"
       THEN /\ pagination' = updatePagination(allPairingsJSON)
            /\ IF Len(allPairingsJSON) # 0
               THEN pairingsJSON' = FirstList(allPairingsJSON)
               ELSE UNCHANGED pairingsJSON
            /\ UNCHANGED <<activeYear, activeMonth>>
       ELSE UNCHANGED <<pagination, pairingsJSON, activeYear, activeMonth>>
    /\ filesList' = <<>>
    /\ filesToRead' = <<>>
    /\ UNCHANGED <<parseVars, verifyVars, statsVars, gaussVars, lengthVars, moduleVars,
                   filterVars, menuVars>>

\* changeMonthYear: a click on link k of the pagination bar
ChangeMonthYear(k) ==
    /\ k \in 1..Len(pagination)
    /\ LET m == MonthIndexOf(ToUpperCase(At(Split(pagination[k], "-"), 0)))
           y == At(Split(pagination[k], "-"), 1)
           i == IF m = 0 - 1 THEN 0
                ELSE FindEntry(allPairingsJSON, monthArray[m + 1], y)
       IN  /\ activeMonth' = m
           /\ activeYear' = y
           /\ IF i # 0
              THEN pairingsJSON' = <<allPairingsJSON[i][1], allPairingsJSON[i][2]>>
              ELSE UNCHANGED pairingsJSON
    /\ UNCHANGED <<parseVars, verifyVars, statsVars, gaussVars, uploadButton, filesList,
                   filesToRead, pagination, lengthVars, moduleVars,
                   filterVars, menuVars>>

\* deleteData(year, month): a click on the delete button of entry k of the
\* selection table.  The assignments to year and month in the function go to
\* its parameters.
DeleteData(k) ==
    /\ k \in 1..Len(allPairingsJSON)
    /\ LET yearArg == ParseInt(allPairingsJSON[k][2])
           monthArg == MonthIndexOf(allPairingsJSON[k][1])
           i == IF yearArg = NaN \/ monthArg = 0 - 1 THEN 0
                ELSE FindEntry(allPairingsJSON, monthArray[monthArg + 1],
                               NumberToString(yearArg))
           all == IF i = 0 THEN allPairingsJSON ELSE SpliceOut(allPairingsJSON, i - 1)
       IN  /\ allPairingsJSON' = all
           /\ pagination' = updatePagination(all)
           /\ pairingsJSON' = IF Len(all) # 0 THEN FirstList(all) ELSE <<>>
    /\ UNCHANGED <<readFileVars, verifyVars, statsVars, gaussVars, uploadButton, filesList,
                   filesToRead, activeMonth, activeYear, lengthVars,
                   moduleVars, filterVars, menuVars>>

\* unlockData: the then-callback of readRequest replaces allPairingsJSON by
\* the downloaded store
UnlockData ==
    /\ \E all \in UnlockStores :
           /\ allPairingsJSON' = all
           /\ pagination' = updatePagination(all)
           /\ pairingsJSON' = FirstList(all)
           /\ activeYear' = sTwenty \o all[1][2]
           /\ activeMonth' = MonthIndexOf(all[1][1])
    /\ UNCHANGED <<readFileVars, verifyVars, statsVars, gaussVars, uploadButton, filesList,
                   filesToRead, lengthVars, moduleVars, filterVars,
                   menuVars>>

NextUpload ==
    \/ UploadFiles
    \/ \E i \in 1..MaxFiles : ReadFileOnload(i)
    \/ UploadFilesThen
    \/ \E k \in 1..Len(pagination) : ChangeMonthYear(k)
    \/ \E k \in 1..Len(allPairingsJSON) : DeleteData(k)
    \/ UnlockData

SpecUpload == InitUpload /\ [][NextUpload]_vars

\* the callbacks of a started upload run: a loaded file is read and a
\* settled Promise.all calls its then-callback
SpecUploadFair ==
    /\ InitUpload
    /\ [][NextUpload]_vars
    /\ WF_vars(\E i \in 1..MaxFiles : ReadFileOnload(i))
    /\ WF_vars(UploadFilesThen)

-----------------------------------------------------------------------------
(* displayStats: the counters of the loop over the filtered pairings.       *)

\* a + b for counters that may be undefined or NaN
AddCount(a, b) == IF a = NaN \/ b = NaN THEN NaN ELSE a + b

\* dayDistribution[idx] += multiplier: idx NaN sets a property and no
\* element; an index past the end leaves holes and stores undefined + m = NaN
AddDay(dd, idx, multiplier) ==
    IF idx = NaN THEN dd
    ELSE IF idx + 1 <= Len(dd)
    THEN [dd EXCEPT ![idx + 1] = AddCount(dd[idx + 1], multiplier)]
    ELSE [k \in 1..(idx + 1) |-> IF k <= Len(dd) THEN dd[k] ELSE NaN]

\* the body of pairings.forEach for one pairing: multiplier = pair.days.length
CountPairing(acc, pair) ==
    LET multiplier == Len(pair.days)
    IN  [acc EXCEPT
            !.numPairings = acc.numPairings + multiplier,
            !.flightCount = acc.flightCount
                               + (Len(pair.legs) * Len(pair.days)) * multiplier,
            !.legCount = acc.legCount + Len(pair.legs) * multiplier,
            !.dayDistribution =
                AddDay(acc.dayDistribution,
                       IF pair.length = NaN THEN NaN ELSE pair.length - 1,
                       multiplier)]

\* pairings.forEach(function (pair) { ... }) from pairing k on
RECURSIVE displayStats(_, _, _)
displayStats(list, k, acc) ==
    IF k > Len(list) THEN acc
    ELSE displayStats(list, k + 1, CountPairing(acc, list[k]))

pShort == ParseBlock(blkShort, TitleCodeshare(lnTitleMay)).obj
pSeven == ParseBlock(blkSeven, TitleCodeshare(lnTitleMay)).obj

\* pairings the parser builds, and one that operates on a single day
StatsPool ==
    {pGood, pMixed, pShort, pSeven, [pGood EXCEPT !.days = << <<"1">> >>]}

\* displayStats is called with at most MaxFiltered pairings
MaxFiltered == 3
StatsInputs == UNION {[1..n -> StatsPool] : n \in 0..MaxFiltered}

\* displayStats is about to be called with one of the lists
InitStats ==
    /\ MenuIdle
    /\ FilterIdle
    /\ ModuleIdle
    /\ LengthIdle
    /\ ParseIdle
    /\ VerifyIdle
    /\ GaussIdle
    /\ UploadIdle
    /\ filtered \in StatsInputs
    /\ stats = NewStats

\* the call displayStats(pairings), up to the end of the loop
DisplayStats ==
    /\ ~stats.called
    /\ stats' = [displayStats(filtered, 1, NewStats) EXCEPT !.called = TRUE]
    /\ UNCHANGED <<parseVars, verifyVars, gaussVars, uploadVars, filtered, lengthVars,
                   moduleVars, filterVars, menuVars>>

NextStats == DisplayStats

SpecStats == InitStats /\ [][NextStats]_vars

-----------------------------------------------------------------------------
(* calcLength applied to pairings whose first and last leg carry every      *)
(* combination of day codes.                                                *)

\* the day codes of a leg: a weekday code or a digit 1..7
DayCodes ==
    {daysOfTheWeek[k] : k \in 1..Len(daysOfTheWeek)}
    \cup {<<d>> : d \in {"1", "2", "3", "4", "5", "6", "7"}}

\* a pairing of two legs with the day codes first and last
LengthInput(first, last) ==
    [NewPairing EXCEPT !.legs = <<[NewLeg EXCEPT !.day = first],
                                  [NewLeg EXCEPT !.day = last]>>]

\* calcLength is about to be called with one of the pairings
InitLength ==
    /\ MenuIdle
    /\ FilterIdle
    /\ ModuleIdle
    /\ ParseIdle
    /\ VerifyIdle
    /\ GaussIdle
    /\ UploadIdle
    /\ StatsIdle
    /\ \E first \in DayCodes, last \in DayCodes :
           lengthIn = LengthInput(first, last)
    /\ lengthOut = [called |-> FALSE, value |-> 0]

\* the call calcLength(pairing)
CalcLength ==
    /\ ~lengthOut.called
    /\ lengthOut' = [called |-> TRUE, value |-> calcLength(lengthIn)]
    /\ UNCHANGED <<parseVars, verifyVars, gaussVars, uploadVars, statsVars,
                   lengthIn, moduleVars, filterVars, menuVars>>

NextLength == CalcLength

SpecLength == InitLength /\ [][NextLength]_vars

-----------------------------------------------------------------------------
(* downloadData: the selected months are downloaded, deciphered and merged  *)
(* into allPairingsJSON; with uploads and deletions on a store that starts  *)
(* empty.                                                                   *)

sJUN == <<"J", "U", "N">>
sDEC == <<"D", "E", "C">>

\* the months offered for download (data-path of the checkboxes, in the
\* order of the inputs) and JSON.parse of the deciphered text of each: an
\* array holding one [month, year, pairings]
DataPaths == <<"2023-06", "2023-05", "2022-12">>
PlainText(path) ==
    CASE path = "2023-06" -> << <<sJUN, <<"2", "3">>, <<pGood>> >> >>
      [] path = "2023-05" -> << <<TitleMonth(lnTitleMay), <<"2", "3">>,
                                  <<pMixed>> >> >>
      [] path = "2022-12" -> << <<sDEC, <<"2", "2">>, <<pGood>> >> >>

\* Number(s) for a string of decimal digits
NumberOf(s) == IF s # <<>> /\ AllIn(s, DigitChars) THEN DigitsValue(s) ELSE NaN

\* Insert chronologically: the loop over allPairingsJSON from index i on
RECURSIVE InsertChronologically(_, _, _)
InsertChronologically(all, entry, i) ==
    IF i >= Len(all) THEN all
    ELSE LET apYear == NumberOf(sTwenty \o all[i + 1][2])
             apMonth == MonthIndexOf(all[i + 1][1])
             ptYear == NumberOf(sTwenty \o entry[2])
             ptMonth == MonthIndexOf(entry[1])
             numbers == apYear # NaN /\ ptYear # NaN
         IN  IF \/ numbers /\ apYear < ptYear
                \/ numbers /\ apYear = ptYear /\ apMonth < ptMonth
             THEN SpliceIn(all, i, entry)
             ELSE IF i = Len(all) - 1 THEN Append(all, entry)
             ELSE InsertChronologically(all, entry, i + 1)

\* the body of cipherText.forEach for one deciphered text
MergeDownloaded(all, plainText) ==
    IF Len(all) < 1 THEN plainText
    ELSE IF FindEntry(all, plainText[1][1], plainText[1][2]) # 0
    THEN [all EXCEPT ![FindEntry(all, plainText[1][1], plainText[1][2])] =
              plainText[1]]
    ELSE InsertChronologically(all, plainText[1], 0)

\* cipherText.forEach over the downloaded files
RECURSIVE MergeAllDownloaded(_, _)
MergeAllDownloaded(all, paths) ==
    IF paths = <<>> THEN all
    ELSE MergeAllDownloaded(MergeDownloaded(all, PlainText(Head(paths))),
                            Tail(paths))

\* a download takes at most MaxDownloads months
MaxDownloads == 2
\* the checked inputs, in the order of the inputs
DownloadLists ==
    {SelectSeq(DataPaths, LAMBDA path : path \in chosen) :
        chosen \in {c \in SUBSET {DataPaths[k] : k \in 1..Len(DataPaths)} :
                       c # {} /\ Cardinality(c) <= MaxDownloads}}

\* downloadData with the correct passphrase: the then-callback of
\* Promise.all(promiseArr)
DownloadData ==
    /\ \E downloadList \in DownloadLists :
           LET all == MergeAllDownloaded(allPairingsJSON, downloadList)
           IN  /\ allPairingsJSON' = all
               /\ pagination' = updatePagination(all)
               /\ IF Len(all) # 0
                  THEN /\ pairingsJSON' = FirstList(all)
                       /\ activeYear' = sTwenty \o all[1][2]
                       /\ activeMonth' = MonthIndexOf(all[1][1])
                  ELSE UNCHANGED <<pairingsJSON, activeYear, activeMonth>>
    /\ UNCHANGED <<readFileVars, verifyVars, statsVars, gaussVars,
                   uploadButton, filesList, filesToRead, lengthVars,
                   moduleVars, filterVars, menuVars>>

\* main with an empty database: nothing is stored
InitStore ==
    /\ ParseIdle
    /\ VerifyIdle
    /\ GaussIdle
    /\ UploadIdle
    /\ StatsIdle
    /\ LengthIdle
    /\ ModuleIdle
    /\ FilterIdle
    /\ MenuIdle

NextStore ==
    \/ UploadFiles
    \/ \E i \in 1..MaxFiles : ReadFileOnload(i)
    \/ UploadFilesThen
    \/ DownloadData
    \/ \E k \in 1..Len(allPairingsJSON) : DeleteData(k)

SpecStore == InitStore /\ [][NextStore]_vars

-----------------------------------------------------------------------------
(* readFiles: the getPDFPairings calls of several files, interleaved at     *)
(* their await points.  parsePairings holds no await: one call runs from    *)
(* its first to its last statement without another call in between.         *)

\* one run of the loop of parsePairings over the blocks from k on: the
\* Pairings pushed, the error thrown and the last value of pairingObj
RECURSIVE RunBlocks(_, _, _, _)
RunBlocks(pairArr, cs, k, acc) ==
    IF k > Len(pairArr) THEN acc
    ELSE IF ParseBlock(pairArr[k], cs).err # NoError
         THEN [acc EXCEPT !.err = ParseBlock(pairArr[k], cs).err,
                          !.pairingObj = ParseBlock(pairArr[k], cs).obj]
         ELSE RunBlocks(pairArr, cs, k + 1,
                        [acc EXCEPT !.pushed = Append(acc.pushed,
                                                 ParseBlock(pairArr[k], cs).obj),
                                    !.pairingObj = ParseBlock(pairArr[k], cs).obj])

\* the run of parsePairings for each file with a title that is accepted
FileRun ==
    [file \in Files |->
        RunBlocks(buildPairings(FileText(file)),
                  TitleCodeshare(FileText(file)[1]), 1,
                  [err |-> NoError, pushed |-> <<>>, pairingObj |-> NewPairing])]

\* hotelName after a run: the name of the Hotel created last, if any
HotelNameAfter(run, before) ==
    LET named == {k \in 1..Len(run.pushed) : run.pushed[k].hotels # <<>>}
        last == CHOOSE k \in named : \A x \in named : x <= k
    IN  IF run.pairingObj.hotels # <<>>
        THEN run.pairingObj.hotels[Len(run.pairingObj.hotels)].name
        ELSE IF named = {} THEN before
        ELSE run.pushed[last].hotels[Len(run.pushed[last].hotels)].name

\* variant: the array pairings refers to is emptied and used again
ClearPairings(h, ref) ==
    IF ref = 0 THEN [heap |-> Append(h, <<>>), ref |-> Len(h) + 1]
    ELSE [heap |-> [h EXCEPT ![ref] = <<>>], ref |-> ref]

\* pairings = []: a new array is created and pairings refers to it
NewPairings(h, ref) == [heap |-> Append(h, <<>>), ref |-> Len(h) + 1]

\* readFiles has called readFile for every file: every getPDFPairings call
\* waits for getPDFText
InitReaders ==
    /\ MenuIdle
    /\ FilterIdle
    /\ ParseIdle
    /\ VerifyIdle
    /\ GaussIdle
    /\ UploadIdle
    /\ StatsIdle
    /\ LengthIdle
    /\ \E files \in FileLists :
           readers = [i \in 1..Len(files) |->
                         [file |-> files[i], pc |-> "text", codeshare |-> <<>>,
                          month |-> <<>>, year |-> <<>>, ref |-> 0,
                          result |-> <<>>]]
    /\ heap = <<>>
    /\ globals = NewGlobals

readerFrame ==
    <<parseVars, verifyVars, gaussVars, uploadVars, statsVars, lengthVars,
      filterVars, menuVars>>

\* getPDFPairings of file i after await getPDFText: the check of the first
\* line, then month, year and codeshare, up to await buildPairings
ReaderTitle(i) ==
    /\ readers[i].pc = "text"
    /\ LET firstLine == FileText(readers[i].file)[1]
       IN  IF ~TitleMatches(firstLine)
           THEN readers' = [readers EXCEPT ![i].pc = "resolved"]
           ELSE readers' = [readers EXCEPT ![i].pc = "build",
                                           ![i].month = TitleMonth(firstLine),
                                           ![i].year = TitleYear(firstLine),
                                           ![i].codeshare =
                                               TitleCodeshare(firstLine)]
    /\ UNCHANGED <<readerFrame, heap, globals>>

\* after await buildPairings: the call of parsePairings, from pairings = []
\* to its return or throw
ReaderParse(i) ==
    /\ readers[i].pc = "build"
    /\ LET run == FileRun[readers[i].file]
           new == NewPairings(heap, globals.pairings)
       IN  /\ heap' = [new.heap EXCEPT ![new.ref] = run.pushed]
           /\ globals' = [globals EXCEPT
                              !.pairings = new.ref,
                              !.pairingObj = run.pairingObj,
                              !.pairingStrings = <<>>,
                              !.flag = FALSE,
                              !.pairingStr = <<>>,
                              !.hotelName = HotelNameAfter(run, globals.hotelName)]
           /\ readers' = IF run.err # NoError
                         THEN [readers EXCEPT ![i].pc = "rejected"]
                         ELSE [readers EXCEPT ![i].pc = "parsed",
                                              ![i].ref = new.ref]
    /\ UNCHANGED readerFrame

\* after await parsePairings: return [month, year, pairings] with the array
\* the call returned
ReaderReturn(i) ==
    /\ readers[i].pc = "parsed"
    /\ readers' = [readers EXCEPT
                      ![i].pc = "resolved",
                      ![i].result = <<readers[i].month, readers[i].year,
                                      heap[readers[i].ref]>>]
    /\ UNCHANGED <<readerFrame, heap, globals>>

NextReaders ==
    \E i \in 1..Len(readers) :
        \/ ReaderTitle(i)
        \/ ReaderParse(i)
        \/ ReaderReturn(i)

SpecReaders == InitReaders /\ [][NextReaders]_vars

-----------------------------------------------------------------------------
(* getPairings: the pairings of the active list that fit the filter.        *)

\* pair[name]: undefined when the object has no such property
Property(pair, name) ==
    IF name \in DOMAIN pair THEN pair[name] ELSE Undefined

\* v < b and v > b for numbers: false when v is NaN
Below(v, b) == v # NaN /\ v < b
Above(v, b) == v # NaN /\ v > b

\* the three branches of a range filter (min and max, just min, just max):
\* whether the forEach callback returns
RangeExcludes(v, range) ==
    IF range[1] # 0 - 1 /\ range[2] # 0 - 1
    THEN Below(v, range[1]) \/ Above(v, range[2])
    ELSE IF range[1] # 0 - 1 THEN Below(v, range[1])
    ELSE IF range[2] # 0 - 1 THEN Above(v, range[2])
    ELSE FALSE

\* Array.prototype.includes
ArrayIncludes(arr, v) == \E k \in 1..Len(arr) : arr[k] = v

\* the characters of the pairing ids in the order of their code units
CodeUnits ==
    <<"0", "1", "2", "3", "4", "5", "6", "7", "8", "9", "A", "B", "C", "D",
      "E", "F", "G", "H", "I", "J", "K", "L", "M", "N", "O", "P", "Q", "R",
      "S", "T", "U", "V", "W", "X", "Y", "Z">>
CodeUnit(ch) ==
    IF \E k \in 1..Len(CodeUnits) : CodeUnits[k] = ch
    THEN CHOOSE k \in 1..Len(CodeUnits) : CodeUnits[k] = ch
    ELSE 0

\* a > b for strings
RECURSIVE StringGreater(_, _)
StringGreater(a, b) ==
    IF a = <<>> THEN FALSE
    ELSE IF b = <<>> THEN TRUE
    ELSE IF Head(a) # Head(b) THEN CodeUnit(Head(a)) > CodeUnit(Head(b))
    ELSE StringGreater(Tail(a), Tail(b))

\* Days of the week: days[gauss(year, month, parseInt(day))] of some day of
\* the pairing is in filter.daysOfTheWeek
DayFits(pair, f, y, m) ==
    LET days == <<Str1("S") \o Str1("U"), Str1("M") \o Str1("O"),
                  Str1("T") \o Str1("U"), Str1("W") \o Str1("E"),
                  Str1("T") \o Str1("H"), Str1("F") \o Str1("R"),
                  Str1("S") \o Str1("A")>>
    IN  \E k \in 1..Len(pair.days) :
            /\ ParseInt(pair.days[k]) # NaN
            /\ ArrayIncludes(f.daysOfTheWeek,
                             days[gauss(y, m, ParseInt(pair.days[k])) + 1])

\* pair.legs.some(leg => leg.layo != "" && ...)
LayoverExcludes(pair, range) ==
    IF range[1] # 0 - 1 /\ range[2] # 0 - 1
    THEN \/ Below(pair.length, 2)
         \/ \E k \in 1..Len(pair.legs) :
                /\ pair.legs[k].layo # <<>>
                /\ \/ Below(ParseInt(pair.legs[k].layo), range[1])
                   \/ Above(ParseInt(pair.legs[k].layo), range[2])
    ELSE IF range[1] # 0 - 1
    THEN \/ Below(pair.length, 2)
         \/ \E k \in 1..Len(pair.legs) :
                /\ pair.legs[k].layo # <<>>
                /\ Below(ParseInt(pair.legs[k].layo), range[1])
    ELSE IF range[2] # 0 - 1
    THEN \E k \in 1..Len(pair.legs) :
             /\ pair.legs[k].layo # <<>>
             /\ Above(ParseInt(pair.legs[k].layo), range[2])
    ELSE FALSE

\* the forEach callback reaches the insert: no filter made it return
Fits(pair, f, bases, y, m) ==
    /\ ArrayIncludes(f.codeshares, pair.codeshare)
    /\ ArrayIncludes(bases, pair.base)
    /\ ~RangeExcludes(pair.length, f.pairingLength)
    /\ ~RangeExcludes(ParseInt(pair.start), f.startTime)
    /\ ~RangeExcludes(ParseInt(pair.end), f.endTime)
    /\ ~RangeExcludes(ParseInt(pair.cdt), f.credit)
    /\ ~RangeExcludes(ParseInt(Property(pair, "timeaway")), f.tafb)
    /\ ~RangeExcludes(ParseInt(pair.tblk), f.tblk)
    /\ ~RangeExcludes(Len(pair.legs), f.legs)
    /\ ~RangeExcludes(ParseInt(pair.ldgs), f.landings)
    /\ DayFits(pair, f, y, m)
    /\ ~RangeExcludes(Cardinality({k \in 1..Len(pair.legs) :
                                      pair.legs[k].deadhead}), f.deadheads)
    /\ ~RangeExcludes(ParseInt(pair.dh), f.deadheadTime)
    /\ ~LayoverExcludes(pair, f.layoverTime)

\* Alphabetical insert
AlphabeticalInsert(list, pair) ==
    LET stop == CHOOSE k \in 0..Len(list) :
                    /\ \A q \in 1..k : StringGreater(pair.id, list[q].id)
                    /\ k < Len(list) => ~StringGreater(pair.id, list[k + 1].id)
    IN  SubSeq(list, 1, stop) \o <<pair>> \o SubSeq(list, stop + 1, Len(list))

\* getPairings: the list the promise resolves with
RECURSIVE getPairings(_, _, _, _, _, _, _)
getPairings(list, k, f, bases, y, m, acc) ==
    IF k > Len(list) THEN acc
    ELSE getPairings(list, k + 1, f, bases, y, m,
                     IF Fits(list[k], f, bases, y, m)
                     THEN AlphabeticalInsert(acc, list[k]) ELSE acc)

\* the array filter.bases refers to
FilterBases == IF filter.basesIsIATA THEN basesIATA ELSE filter.bases

\* pairings of the active list: one the parser built and copies of it with
\* other ids and times away from base
TafbPool ==
    {pGood,
     [pGood EXCEPT !.id = <<"E", "1", "0", "0", "0">>,
                   !.tafb = <<"9", "0", "0">>],
     [pGood EXCEPT !.id = <<"E", "9", "0", "0", "0">>,
                   !.tafb = <<"3", "0", "1", "5">>,
                   !.cdt = <<"1", "5", "0", "0">>]}

\* getPairings runs over at most MaxActive pairings
MaxActive == 2
TafbBounds == {0 - 1, 1000, 2500}
CreditBounds == {0 - 1, 1000}

\* a list is active and the settings were saved with bounds for TAFB and
\* credit (saveSettings: filter.tafb[0], filter.tafb[1], filter.credit[0])
InitFilter ==
    /\ ModuleIdle
    /\ LengthIdle
    /\ ParseIdle
    /\ VerifyIdle
    /\ GaussIdle
    /\ UploadIdle
    /\ StatsIdle
    /\ MenuIdle
    /\ jsonList \in UNION {[1..n -> TafbPool] : n \in 1..MaxActive}
    /\ \E lo, hi \in TafbBounds, c \in CreditBounds :
           filter = [NewFilter EXCEPT !.tafb = <<lo, hi>>,
                                      !.credit = <<c, 0 - 1>>]
    /\ shown = [called |-> FALSE, pairings |-> <<>>]

\* the call getPairings() of buildLegs
GetPairings ==
    /\ ~shown.called
    /\ shown' = [called |-> TRUE,
                 pairings |-> getPairings(jsonList, 1, filter, FilterBases,
                                          ParseInt(activeYear), activeMonth,
                                          <<>>)]
    /\ UNCHANGED <<parseVars, verifyVars, gaussVars, uploadVars, statsVars,
                   lengthVars, moduleVars, menuVars, filter, jsonList>>

NextFilter == GetPairings

SpecFilter == InitFilter /\ [][NextFilter]_vars

-----------------------------------------------------------------------------
(* The filter menu: the click handler with its timer, singleClickAction and *)
(* doubleClickAction on the base buttons.  A timer is named by the index of *)
(* the click that set it; all timers have the same delay and fire in the    *)
(* order in which they were set.                                            *)

\* clearTimeout(id)
ClearTimeout(ts, id) == SelectSeq(ts, LAMBDA t : t # id)

\* filter.bases.splice(filter.bases.indexOf(v), 1)
RemoveBase(arr, v) ==
    LET k == CHOOSE x \in 1..Len(arr) :
                 arr[x] = v /\ \A q \in 1..(x - 1) : arr[q] # v
    IN  SubSeq(arr, 1, k - 1) \o SubSeq(arr, k + 1, Len(arr))

\* singleClickAction on the button of a base: the active state of the button
\* is switched, then the base is pushed to or spliced out of filter.bases
SingleBases(active, arr, base) ==
    IF base \notin active
    THEN IF ~ArrayIncludes(arr, base) THEN Append(arr, base) ELSE arr
    ELSE IF ArrayIncludes(arr, base) THEN RemoveBase(arr, base) ELSE arr

\* what singleClickAction and doubleClickAction leave: the array filter.bases
\* refers to is written (the same array as basesIATA when basesIsIATA), the
\* buttons are updated and buildLegs calls getPairings
MenuResult(newBases, isIATA, active, entry) ==
    /\ filter' = [filter EXCEPT !.bases = newBases, !.basesIsIATA = isIATA]
    /\ basesIATA' = IF isIATA THEN newBases ELSE basesIATA
    /\ buttons' = active
    /\ ran' = Append(ran, entry)
    /\ shown' = [called |-> TRUE,
                 pairings |-> getPairings(jsonList, 1, filter', newBases,
                                          ParseInt(activeYear), activeMonth,
                                          <<>>)]

\* singleClickAction(data) for the click with index id
singleClickAction(id) ==
    LET base == clicks[id].target
    IN  MenuResult(SingleBases(buttons, FilterBases, base),
                   filter.basesIsIATA,
                   IF base \in buttons THEN buttons \ {base}
                   ELSE buttons \cup {base},
                   [action |-> "singleClickAction", click |-> id])

\* doubleClickAction(data) for the click with index id
doubleClickAction(id, base) ==
    IF Len(FilterBases) <= 1
    THEN \* filter.bases = basesIATA
         MenuResult(basesIATA, TRUE,
                    {baseCodes[k] : k \in 1..Len(baseCodes)},
                    [action |-> "doubleClickAction", click |-> id])
    ELSE \* Make only item in filter.
         /\ filter' = [filter EXCEPT !.bases = <<base>>,
                                     !.basesIsIATA = FALSE]
         /\ UNCHANGED basesIATA
         /\ buttons' = {base}
         /\ ran' = Append(ran, [action |-> "doubleClickAction", click |-> id])
         /\ shown' = [called |-> TRUE,
                      pairings |-> getPairings(jsonList, 1, filter', <<base>>,
                                               ParseInt(activeYear),
                                               activeMonth, <<>>)]

\* the base buttons clicked, and the number of click events of a run
ClickTargets == {baseCodes[1], baseCodes[10]}
MaxClicks == 5
\* event.detail: the count of clicks in quick succession at one place
MaxDetail == 3

menuFrame ==
    <<parseVars, verifyVars, gaussVars, uploadVars, statsVars, lengthVars,
      moduleVars, jsonList>>

\* the first click (detail 1) of the run of clicks that click id belongs to
FirstOfRun(id) == id - clicks[id].detail + 1

\* events: click of the control.  A click has detail 1, or follows a click
\* of detail one less on the same button before the timer of the first click
\* of the run has fired
Click(detail, target) ==
    /\ Len(clicks) < MaxClicks
    /\ detail > 1 =>
           /\ clicks # <<>>
           /\ clicks[Len(clicks)].detail = detail - 1
           /\ clicks[Len(clicks)].target = target
           /\ \A k \in 1..Len(ran) :
                  ~(/\ ran[k].action = "singleClickAction"
                    /\ ran[k].click = FirstOfRun(Len(clicks)))
    /\ clicks' = Append(clicks, [detail |-> detail, target |-> target])
    /\ IF detail = 1
       THEN /\ pendingClick' = Len(clicks) + 1
            /\ timers' = Append(timers, Len(clicks) + 1)
            /\ UNCHANGED <<filter, shown, basesIATA, buttons, ran>>
       ELSE /\ timers' = ClearTimeout(timers, pendingClick)
            /\ UNCHANGED pendingClick
            /\ doubleClickAction(Len(clicks) + 1, target)
    /\ UNCHANGED menuFrame

\* the callback of the oldest timer: clearTimeout(pendingClick), then
\* singleClickAction(data) with the click that set the timer
TimerFires ==
    /\ timers # <<>>
    /\ timers' = ClearTimeout(Tail(timers), pendingClick)
    /\ singleClickAction(Head(timers))
    /\ UNCHANGED <<menuFrame, pendingClick, clicks>>

\* the page with the filter menu and no pairing list
InitMenu ==
    /\ MenuIdle
    /\ FilterIdle
    /\ ParseIdle
    /\ VerifyIdle
    /\ GaussIdle
    /\ UploadIdle
    /\ StatsIdle
    /\ LengthIdle
    /\ ModuleIdle

NextMenu ==
    \/ \E detail \in 1..MaxDetail, target \in ClickTargets :
           Click(detail, target)
    \/ TimerFires

SpecMenu == InitMenu /\ [][NextMenu]_vars

-----------------------------------------------------------------------------
(* Properties of getPDFPairings and readFile (specification Spec), of gauss *)
(* (SpecGauss) and of verifyPairings (SpecVerify).                          *)

\* the pairings of a document that getPDFPairings resolved with, else none
Returned ==
    IF pc \in {"resolved", "done"} /\ Len(result) = 3 THEN result[3] ELSE <<>>

\* the block parsePairings is about to tokenize throws
BlockFails ==
    /\ pc = "parse"
    /\ j < Len(builtPairings)
    /\ ParseBlock(builtPairings[j + 1], codeshare).err # NoError

\* C1: when tokenizing a block of a document fails, getPDFPairings yields no
\* pairing list (its promise rejects and stays rejected, readFile never
\* settles), and the accepted set is left as it was: nothing of the document,
\* the blocks parsed before the failing one included, is added to it.  The
\* accepted set changes only in the then-callback of a resolved call.
C1_FailureLeavesStoreUnchanged ==
    [][/\ BlockFails => /\ pc' = "rejected"
                        /\ result' = Pending
                        /\ settled' = "pending"
                        /\ allPairingsJSON' = allPairingsJSON
       /\ pc # "rejected"
       /\ pc # "resolved" => allPairingsJSON' = allPairingsJSON]_vars

\* a block failed after another had been parsed, with a non-empty accepted set
C1_RejectedAfterParsedBlock ==
    /\ pc = "rejected"
    /\ error # NoError
    /\ Len(pairings) >= 1
    /\ allPairingsJSON = PriorStore
    /\ result = Pending

\* C2: every pairing list getPDFPairings returns has passed verifyPairings,
\* so every returned pairing has the id, codeshare, day, base, start/end time
\* and totals formats.
C2_ReturnedPairingsValidated ==
    (pc \in {"resolved", "done"} /\ Len(result) = 3)
        => verifyPairings(result[3]) = NoError

\* '<month name> 20DD Pilot <AA|DL|UA> Pairings <anything>': the words of
\* line between single spaces
C3_TitleForm(line) ==
    LET w == Split(line, " ")
    IN  /\ Len(w) >= 6
        /\ \E k \in 1..Len(monthsOfTheYear) : w[1] = monthsOfTheYear[k]
        /\ Len(w[2]) = 4 /\ SubSeq(w[2], 1, 2) = <<"2", "0">>
        /\ w[2][3] \in DigitChars /\ w[2][4] \in DigitChars
        /\ w[3] = <<"P", "i", "l", "o", "t">>
        /\ w[4] \in Codeshares
        /\ w[5] = <<"P", "a", "i", "r", "i", "n", "g", "s">>

\* C3: unless the first line has the title form the document is rejected
\* before buildPairings and parsePairings run, and getPDFPairings returns the
\* empty result: no month, no year, no pairings.
C3_TitleGate ==
    /\ pc \in {"build", "parse", "rejected"} => C3_TitleForm(text[1])
    /\ (pc \in {"resolved", "done"} /\ Len(result) = 3) => C3_TitleForm(text[1])
    /\ (pc \in {"resolved", "done"} /\ ~C3_TitleForm(text[1])) =>
           /\ result = <<>>
           /\ month = <<>> /\ year = <<>> /\ codeshare = <<>>
           /\ builtPairings = <<>> /\ pairings = <<>>

\* a document whose first line lacks the Pairings token was read and rejected
C3_RejectedWithoutPairingsToken ==
    /\ pc = "done"
    /\ settled = "false"
    /\ Len(text) > 1
    /\ text[1] = lnTitleNoPairings
    /\ result = <<>>
    /\ builtPairings = <<>>

\* the '='-delimited line groups between month markers: a group lies between
\* two consecutive separator lines with no month line between them
GroupOpens(lines, s) ==
    /\ IsSeparatorLine(lines[s]) /\ ~IsMonthLine(lines[s])
    /\ \E e \in (s + 1)..Len(lines) :
           /\ IsSeparatorLine(lines[e]) /\ ~IsMonthLine(lines[e])
           /\ \A m \in (s + 1)..(e - 1) :
                  ~IsSeparatorLine(lines[m]) /\ ~IsMonthLine(lines[m])
NumGroups(lines) == Cardinality({s \in 1..Len(lines) : GroupOpens(lines, s)})
\* the content lines of the k-th group
Group(lines, k) ==
    LET s == CHOOSE x \in 1..Len(lines) :
                 /\ GroupOpens(lines, x)
                 /\ Cardinality({y \in 1..x : GroupOpens(lines, y)}) = k
        e == CHOOSE x \in (s + 1)..Len(lines) :
                 /\ IsSeparatorLine(lines[x])
                 /\ \A m \in (s + 1)..(x - 1) : ~IsSeparatorLine(lines[m])
    IN  SelectSeq(SubSeq(lines, s + 1, e - 1), LAMBDA l : ~IsDroppedLine(l))

\* C4: a document that parses returns as many pairings as it has '='-delimited
\* line groups between month markers, and the k-th pairing is the one built
\* from the k-th group.
C4_OnePairingPerGroup ==
    (pc \in {"resolved", "done"} /\ Len(result) = 3) =>
        /\ Len(result[3]) = NumGroups(text)
        /\ \A k \in 1..Len(result[3]) :
               k <= NumGroups(text) =>
                   result[3][k] = ParseBlock(Group(text, k), codeshare).obj

\* the proleptic Gregorian calendar: days before 1 January of year y, days of
\* year y before month m, and the day of the week (0 = Sunday) of a date;
\* 1 January of year 1 is a Monday
GregorianLeap(y) == (y % 4 = 0 /\ y % 100 # 0) \/ y % 400 = 0
DaysBeforeYear(y) ==
    365 * (y - 1) + ((y - 1) \div 4) - ((y - 1) \div 100) + ((y - 1) \div 400)
DaysBeforeMonth(y, m) ==
    <<0, 31, 59, 90, 120, 151, 181, 212, 243, 273, 304, 334>>[m]
        + (IF GregorianLeap(y) /\ m > 2 THEN 1 ELSE 0)
GregorianWeekday(y, m, d) == (DaysBeforeYear(y) + DaysBeforeMonth(y, m) + d) % 7

\* C5: gauss(year, month, day) is the proleptic Gregorian day of the week
\* (0 = Sunday, ..., 6 = Saturday) of every date of the calendar.
C5_GaussIsGregorianWeekday ==
    gout # 0 - 1 => gout = GregorianWeekday(gin[1], gin[2], gin[3])

\* the indices (0-based, in order) of the lines of a block that parsePairings
\* reads as legs
LegLineSet(block) ==
    {i \in 3..(Len(block) - 1) : IsLegLine(Tokenize(block[i + 1]))}
\* the q-th index of the set S of leg line indices
LegLineOf(S, q) == CHOOSE i \in S : Cardinality({x \in S : x <= i}) = q

\* the fields of a leg agree with the lines after line i of its block
LegFollowsLookahead(leg, block, i) ==
    IF Includes(LineAt(block, i + 1), sDEND)
    THEN /\ leg.grnt = <<>>
         /\ leg.tblk # <<>> /\ leg.tcrd # <<>> /\ leg.tpay # <<>> /\ leg.duty # <<>>
         /\ leg.layo # <<>> <=> ~Includes(LineAt(block, i + 2), sTOTALS)
    ELSE /\ leg.grnt # <<>>
         /\ leg.tblk = <<>> /\ leg.tcrd = <<>> /\ leg.tpay = <<>>
         /\ leg.duty = <<>> /\ leg.layo = <<>>

\* the legs are those of the leg lines S of the block, in order, and each
\* agrees with the lines after its line
LegsFollowLookahead(legs, block, S) ==
    /\ Len(legs) = Cardinality(S)
    /\ \A q \in 1..Len(legs) :
           LegFollowsLookahead(legs[q], block, LegLineOf(S, q))

\* C6: for every leg of a parsed pairing: when the line after the leg's line
\* contains D-END, the ground time is empty, the four duty totals are not, and
\* the layover time is non-empty exactly when the line two after does not
\* contain TOTALS; otherwise the ground time is non-empty and the duty totals
\* and the layover time are empty.
C6_LegFieldsFollowLookahead ==
    \A k \in 1..Len(pairings) :
        LegsFollowLookahead(pairings[k].legs, builtPairings[k],
                            LegLineSet(builtPairings[k]))

\* a returned pairing with a leg inside a duty day, a last leg of a duty day
\* with a layover, and the last leg of the final duty day
C6_AllThreeLegKinds ==
    /\ Len(Returned) >= 1
    /\ \E q \in 1..Len(Returned[1].legs) : Returned[1].legs[q].grnt # <<>>
    /\ \E q \in 1..Len(Returned[1].legs) : Returned[1].legs[q].layo # <<>>
    /\ \E q \in 1..Len(Returned[1].legs) :
           Returned[1].legs[q].duty # <<>> /\ Returned[1].legs[q].layo = <<>>

C8_ValidatorRejectsHotelsAndLegs ==
    (vout.called /\ vout.err = NoError) =>
        \A k \in 1..Len(vin) :
            /\ verifyHotels(vin[k].hotels).value
            /\ verifyLegs(vin[k].legs).value

\* the id of the pairing parsePairings is tokenizing: the first word of the
\* first line of the block
ParsedId == At(Tokenize(builtPairings[j + 1][1]), 0)

\* C10: every failure of a parse is an error value that carries the id of the
\* pairing being parsed, and the failure of the title check one that carries
\* 'document header'.
C10_FailuresCarryPairingId ==
    /\ pc = "rejected" => ("id" \in DOMAIN error /\ error.id = ParsedId)
    /\ (pc \in {"resolved", "done"} /\ result = <<>>) => error # NoError

\* C11: after uploadFiles has started reading the files the upload finishes
\* whatever the parse outcomes are: every readFile promise settles and the
\* upload button is enabled again.
C11_UploadEventuallyFinishes ==
    uploadButton.disabled ~> (~uploadButton.disabled /\ filesToRead = <<>>)

\* the pairing list pairingsJSON references
ActiveList ==
    IF pairingsJSON = <<>> THEN <<>>
    ELSE IF FindEntry(allPairingsJSON, pairingsJSON[1], pairingsJSON[2]) = 0
    THEN <<>>
    ELSE allPairingsJSON[FindEntry(allPairingsJSON, pairingsJSON[1],
                                   pairingsJSON[2])][3]

\* C15: whenever pairingsJSON is not empty the active month and year are
\* those of the entry of allPairingsJSON whose list pairingsJSON is (the year
\* in either of its forms, 23 or 2023).
C15_ActiveMonthYearOfActiveList ==
    Len(ActiveList) > 0 =>
        /\ activeMonth \in 1..12
        /\ monthArray[activeMonth + 1] = pairingsJSON[1]
        /\ activeYear \in {pairingsJSON[2], sTwenty \o pairingsJSON[2]}

\* c is the upper-cased first three letters of name
C12_UpperFirstThree(c, name) ==
    /\ Len(c) = 3
    /\ \A i \in 1..3 :
           \E n \in 1..26 : /\ c[i] = upperLetters[n]
                            /\ name[i] \in {upperLetters[n], lowerLetters[n]}

\* C12: for an accepted document the returned month code is the upper-cased
\* first three letters of the month name of the title line ('OCT' for the
\* misspelling 'Ocotber'), the returned year is the last two digits of the
\* title year, and every returned Pairing has the carrier code of the title
\* line as codeshare.
C12_TitleFieldsReturned ==
    (pc \in {"resolved", "done"} /\ Len(result) = 3) =>
        LET w == Split(text[1], " ")
        IN  /\ IF w[1] = monthsOfTheYear[13]
               THEN result[1] = <<"O", "C", "T">>
               ELSE C12_UpperFirstThree(result[1], w[1])
            /\ result[2] = <<w[2][3], w[2][4]>>
            /\ w[4] \in Codeshares
            /\ \A k \in 1..Len(result[3]) : result[3][k].codeshare = w[4]

\* a document titled 'Ocotber 2022 Pilot DL ...' was accepted with a pairing
C12_OcotberAccepted ==
    /\ pc \in {"resolved", "done"}
    /\ Len(result) = 3
    /\ text[1] = lnTitleOct
    /\ result[1] = <<"O", "C", "T">>
    /\ result[2] = <<"2", "2">>
    /\ Len(result[3]) > 0
    /\ result[3][1].codeshare = <<"D", "L">>

\* the fields of a block of n lines that are recovered by merging the token
\* at offset k of line i with the next one until it has len characters:
\* reportTime, base and releaseTime (on a line the day scan does not reach)
C13_MergeFields(block) ==
    {f \in {[name |-> "start", i |-> 0, k |-> 3, len |-> 5],
            [name |-> "base", i |-> 1, k |-> 1, len |-> 3],
            [name |-> "end", i |-> Len(block) - 2, k |-> 1, len |-> 5]} :
        /\ f.i >= 0
        /\ f.name = "end" => f.i >= 6
        /\ f.name = "start" =>
               /\ At(Tokenize(block[1]), 1) = sBASE
               /\ At(Tokenize(block[1]), 2) = sREPT}

\* the token of field f does not have its shape and merged with the next
\* token it has
C13_MergeSucceeds(block, f) ==
    LET reg == Tokenize(block[f.i + 1])
    IN  /\ Len(reg) > f.k + 1
        /\ Len(reg[f.k + 1]) # f.len
        /\ Len(reg[f.k + 1] \o reg[f.k + 2]) = f.len

\* the block with the two tokens of field f written as one
C13_Merged(block, f) ==
    [block EXCEPT ![f.i + 1] =
        Join(MergeNext(Tokenize(block[f.i + 1]), f.k), Str1(" "))]

\* C13: a soft recovery that succeeds is never an error: when the token of
\* a field does not have the expected shape and merged with the next token
\* it has, the merged value is stored in the field and the parse goes on as
\* if the value had been in one token (no failure is raised for it).
C13_SoftRecoveryIsNoError ==
    /\ pc = "rejected" =>
           \A f \in C13_MergeFields(builtPairings[j + 1]) :
               C13_MergeSucceeds(builtPairings[j + 1], f) =>
                   ParseBlock(C13_Merged(builtPairings[j + 1], f), codeshare).err
                       # NoError
    /\ \A k \in 1..Len(pairings) :
           \A f \in C13_MergeFields(builtPairings[k]) :
               C13_MergeSucceeds(builtPairings[k], f) =>
                   pairings[k][f.name] =
                       Tokenize(C13_Merged(builtPairings[k], f)[f.i + 1])[f.k + 1]

\* the sum of days.length, and of legs.length * days.length, over a list
RECURSIVE C14_DaysSum(_)
C14_DaysSum(list) ==
    IF list = <<>> THEN 0 ELSE Len(Head(list).days) + C14_DaysSum(Tail(list))
RECURSIVE C14_LegDaysSum(_)
C14_LegDaysSum(list) ==
    IF list = <<>> THEN 0
    ELSE Len(Head(list).legs) * Len(Head(list).days) + C14_LegDaysSum(Tail(list))

\* C14: displayStats counts each pairing once per operating day: the pairing
\* count is the sum of days.length over the filtered pairings and the flight
\* count is the sum of legs.length * days.length.
C14_StatsCountPerOperatingDay ==
    stats.called =>
        /\ stats.numPairings = C14_DaysSum(filtered)
        /\ stats.flightCount = C14_LegDaysSum(filtered)

\* a line that is never content of a block: it contains a month name or the
\* '=' separator, is whitespace only, contains the placeholder or STANDOVER
C16_Excluded(line) ==
    \/ \E k \in 1..Len(monthsOfTheYear) : Includes(line, monthsOfTheYear[k])
    \/ Includes(line, [k \in 1..72 |-> "="])
    \/ \A k \in 1..Len(line) : line[k] \in WhitespaceChars
    \/ Includes(line, <<"(", "T", "h", "i", "s", " ", "i", "s", " ", "i", "n",
                        "t", "e", "n", "t", "i", "o", "n", "a", "l", "l", "y",
                        " ", "l", "e", "f", "t", " ", "b", "l", "a", "n", "k",
                        ".", ")">>)
    \/ Includes(line, <<"S", "T", "A", "N", "D", "O", "V", "E", "R">>)

\* the flag is true when line i is read: a separator line was read before it
\* and no month line since
C16_FlagTrue(lines, i) ==
    \E s \in 1..(i - 1) :
        /\ IsSeparatorLine(lines[s]) /\ ~IsMonthLine(lines[s])
        /\ \A t \in (s + 1)..(i - 1) : ~IsMonthLine(lines[t])

\* the indices of the lines read while the flag is true and not excluded
C16_ContentLines(lines) ==
    {i \in 1..Len(lines) : ~C16_Excluded(lines[i]) /\ C16_FlagTrue(lines, i)}

\* the lines of the emitted blocks are, in the order of emission, lines of
\* the set S at increasing indices (the q-th emitted line is the q-th of S)
C16_InDocumentOrder(flat, lines, S) ==
    /\ Len(flat) <= Cardinality(S)
    /\ \A q \in 1..Len(flat) : flat[q] = lines[LegLineOf(S, q)]

\* C16: every line of every block buildPairings emits was read while the
\* flag was true and is no month line, separator line, whitespace line,
\* placeholder line or STANDOVER line; the blocks are in document order and
\* the lines of a block keep their document order.
C16_BlocksOfCollectedLines ==
    (pc = "parse" /\ j = 0) =>
        /\ \A k \in 1..Len(builtPairings) :
               \A q \in 1..Len(builtPairings[k]) :
                   ~C16_Excluded(builtPairings[k][q])
        /\ C16_InDocumentOrder(Flatten(builtPairings), text,
                               C16_ContentLines(text))

\* two blocks were built from a document with whitespace, STANDOVER and
\* placeholder lines inside its columns
C16_TwoBlocksFromColumns ==
    /\ pc = "parse" /\ j = 0
    /\ Len(builtPairings) = 2
    /\ \E a, b, c \in 1..Len(text) :
           /\ text[a] = lnStandover /\ text[b] = sBlank /\ text[c] = lnSpaces
           /\ C16_FlagTrue(text, a) /\ C16_FlagTrue(text, b)
           /\ C16_FlagTrue(text, c)

\* a token of the calendar columns: '--' or a numeral '1'..'31'
C17_IsNumeral(t) == t \in calendar
C17_InRun(t) == t = <<"-", "-">> \/ C17_IsNumeral(t)

\* the numerals of the trailing run of the tokens t, from the end of the line
C17_TrailingDays(t) ==
    LET stops == {p \in 1..Len(t) : ~C17_InRun(t[p])}
        first == IF stops = {} THEN 0
                 ELSE CHOOSE p \in stops : \A x \in stops : x <= p
    IN  SelectSeq(Reverse(SubSeq(t, first + 1, Len(t))), C17_IsNumeral)

\* the days of line i (0-based) of a block, none when the block is shorter
C17_LineDays(block, i) ==
    IF i < Len(block) THEN C17_TrailingDays(Tokenize(block[i + 1])) ELSE <<>>

\* C17: operatingDays holds, for each of the first six lines of the block
\* (indices 0 to 5, header and base included) in turn, the numerals of the
\* trailing run of '--' and numeral tokens of the line, scanned from its end,
\* and nothing else.
C17_DaysOfFirstSixLines ==
    \A k \in 1..Len(pairings) :
        pairings[k].days =
            C17_LineDays(builtPairings[k], 0) \o C17_LineDays(builtPairings[k], 1)
            \o C17_LineDays(builtPairings[k], 2) \o C17_LineDays(builtPairings[k], 3)
            \o C17_LineDays(builtPairings[k], 4) \o C17_LineDays(builtPairings[k], 5)

\* the end time read left to right from the tokens t of the line before the
\* last: the token at offset 1, with the token at offset 2 appended when it
\* does not have 5 characters
C18_EndOf(t) ==
    IF Len(t[2]) = 5 THEN t[2] ELSE t[2] \o t[3]

\* C18: for every successfully parsed block of n lines, whatever n is,
\* Pairing.end is the token at offset 1 of line n-2, read left to right (with
\* the token at offset 2 appended when the first is not 5 characters long).
C18_EndFromLineBeforeLast ==
    \A k \in 1..Len(pairings) :
        pairings[k].end =
            C18_EndOf(Tokenize(builtPairings[k][Len(builtPairings[k]) - 1]))

\* C19: for every successfully parsed block of n lines, whatever n is, tblk,
\* dh, cdt, tafb and ldgs are the tokens at offsets 2, 4, 9, 11 and 13 of the
\* last line, read left to right.
C19_TotalsFromLastLine ==
    \A k \in 1..Len(pairings) :
        LET t == Tokenize(builtPairings[k][Len(builtPairings[k])])
        IN  /\ pairings[k].tblk = t[3]
            /\ pairings[k].dh = t[5]
            /\ pairings[k].cdt = t[10]
            /\ pairings[k].tafb = t[12]
            /\ pairings[k].ldgs = t[14]

\* the line consists solely of a phone number DDD-DDD-DDDD
C20_PhoneOnly(line) ==
    LET t == Trim(line)
    IN  /\ Len(t) = 12
        /\ \A k \in 1..12 : IF k \in {4, 8} THEN t[k] = "-" ELSE t[k] \in DigitChars

\* the body lines (0-based indices above 2) of a block that name a hotel
C20_HotelLines(block) ==
    {i \in 3..(Len(block) - 1) :
        /\ ~IsLegLine(Tokenize(block[i + 1]))
        /\ IsHotelLine(Tokenize(block[i + 1]))
        /\ ~C20_PhoneOnly(block[i + 1])}

\* C20: a body line that consists solely of a phone number creates no Hotel:
\* the Pairing has one Hotel per hotel line, and the Hotel added last before
\* the phone line has that number as phone.
C20_PhoneLineAddsNoHotel ==
    \A k \in 1..Len(pairings) :
        LET block == builtPairings[k]
            H == C20_HotelLines(block)
        IN  /\ Len(pairings[k].hotels) = Cardinality(H)
            /\ \A i \in 3..(Len(block) - 1) :
                   (C20_PhoneOnly(block[i + 1]) /\ \E h \in H : h < i) =>
                       pairings[k].hotels[Cardinality({h \in H : h < i})].phone
                           = Trim(block[i + 1])

\* the context after the header line of a block has been processed
C21_Header(block) ==
    HeaderLine([err |-> NoError, reg |-> Tokenize(block[1]), obj |-> NewPairing])

\* the blocks whose header line has been processed: those parsed and the one
\* the parse was rejected for
C21_Processed ==
    {k \in 1..Len(builtPairings) :
        k <= Len(pairings) \/ (pc = "rejected" /\ k = j + 1)}

\* C21: when the header line of a block is processed without a failure the
\* recovered tokens at offsets 1 and 2 are 'BASE' and 'REPT' and Pairing.start
\* is the token at offset 3, of 5 characters; otherwise the parse aborts.
C21_HeaderRecovered ==
    \A k \in C21_Processed :
        LET h == C21_Header(builtPairings[k])
        IN  h.err = NoError =>
                /\ At(h.reg, 1) = <<"B", "A", "S", "E">>
                /\ At(h.reg, 2) = <<"R", "E", "P", "T">>
                /\ h.obj.start = At(h.reg, 3)
                /\ Len(h.obj.start) = 5
                /\ k <= Len(pairings) => pairings[k].start = h.obj.start

\* s is made of decimal digits only, at least one
C22_Digits(s) == Len(s) >= 1 /\ \A k \in 1..Len(s) : s[k] \in DigitChars

\* C22: every Leg of a successfully parsed Pairing has a flight number made
\* of decimal digits only: exactly 4 when the leg is no deadhead, one or more
\* when it is.
C22_FlightNumberDigits ==
    \A k \in 1..Len(pairings) :
        \A l \in 1..Len(pairings[k].legs) :
            LET leg == pairings[k].legs[l]
            IN  /\ C22_Digits(leg.flightNum)
                /\ ~leg.deadhead => Len(leg.flightNum) = 4

\* s is a string of 1 to 4 decimal digits
C23_UpToFourDigits(s) ==
    Len(s) \in 1..4 /\ \A k \in 1..Len(s) : s[k] \in DigitChars

\* C23: for every Leg of a successfully parsed Pairing that is the last of
\* its duty day (the leg carries duty totals), tblk, tcrd, tpay and duty are
\* strings of 1 to 4 decimal digits; the duty time of the final duty day
\* holds nothing but digits.
C23_DutyTotalsDigits ==
    \A k \in 1..Len(pairings) :
        \A l \in 1..Len(pairings[k].legs) :
            LET leg == pairings[k].legs[l]
            IN  (leg.tblk # <<>> \/ leg.duty # <<>>) =>
                    /\ C23_UpToFourDigits(leg.tblk)
                    /\ C23_UpToFourDigits(leg.tcrd)
                    /\ C23_UpToFourDigits(leg.tpay)
                    /\ C23_UpToFourDigits(leg.duty)

\* the position of a day code in the week: 0..6 for SU..SA, and the value of
\* a digit code
C24_Weekdays == <<"SU", "MO", "TU", "WE", "TH", "FR", "SA">>
C24_Code(day) == IF Len(day) = 2 THEN day[1] \o day[2] ELSE day[1]
C24_Position(day) ==
    IF Len(day) = 2
    THEN (CHOOSE k \in 1..7 : C24_Weekdays[k] = C24_Code(day)) - 1
    ELSE CHOOSE v \in 1..7 : <<"1", "2", "3", "4", "5", "6", "7">>[v] = day[1]

\* C24: for a first and a last day code of the same kind calcLength returns
\* ((last - first) mod 7) + 1, a value in 1..7: 1 for equal codes and 3 for
\* first 'MO' and last 'WE'.
C24_LengthWrapsForward ==
    LET first == lengthIn.legs[1].day
        last == lengthIn.legs[2].day
    IN  (lengthOut.called /\ Len(first) = Len(last)) =>
            /\ lengthOut.value =
                   ((C24_Position(last) - C24_Position(first)) % 7) + 1
            /\ lengthOut.value \in 1..7
            /\ first = last => lengthOut.value = 1
            /\ (first = <<"M", "O">> /\ last = <<"W", "E">>) =>
                   lengthOut.value = 3

\* calcLength was called for first 'SA', last 'MO' and returned 3
C24_SaturdayToMonday ==
    /\ lengthOut.called
    /\ lengthIn.legs[1].day = <<"S", "A">>
    /\ lengthIn.legs[2].day = <<"M", "O">>
    /\ lengthOut.value = 3

\* C25: when several files are read concurrently the result of each file is
\* the one it has when it is parsed alone: the module-level variables
\* parsePairings writes never carry records of one document into another.
C25_ResultAsIfParsedAlone ==
    \A i \in 1..Len(readers) :
        /\ readers[i].pc = "resolved" =>
               /\ ~FileOutcome[readers[i].file].rejected
               /\ readers[i].result = FileOutcome[readers[i].file].value
        /\ readers[i].pc = "rejected" => FileOutcome[readers[i].file].rejected

\* two different documents were read, the second parsed between the parse
\* of the first and its return, and both resolved with their pairings
C25_InterleavedBothResolved ==
    /\ Len(readers) = 2
    /\ readers[1].pc = "resolved" /\ readers[2].pc = "resolved"
    /\ readers[1].file = "may2.pdf" /\ readers[2].file = "oct.pdf"
    /\ readers[1].ref = 1 /\ readers[2].ref = 2
    /\ Len(readers[1].result) = 3 /\ Len(readers[2].result) = 3
    /\ readers[1].result[3] # readers[2].result[3]

\* the lines strictly between the lines a and b that a block keeps
C26_Between(lines, a, b) ==
    LET Kept(line) == ~C16_Excluded(line)
    IN  SelectSeq(SubSeq(lines, a + 1, b - 1), Kept)

\* a and b are consecutive separator lines with no month line between them
C26_ConsecutiveSeparators(lines, a, b) ==
    /\ a < b
    /\ IsSeparatorLine(lines[a]) /\ ~IsMonthLine(lines[a])
    /\ IsSeparatorLine(lines[b]) /\ ~IsMonthLine(lines[b])
    /\ \A t \in (a + 1)..(b - 1) :
           ~IsSeparatorLine(lines[t]) /\ ~IsMonthLine(lines[t])

\* C26: every block buildPairings emits holds exactly the kept lines between
\* one pair of consecutive separator lines with no month line between them
\* (nothing read before a month line is carried into a later block), and
\* every content line read while the flag is true is in a block.
C26_BlocksWithinOneColumn ==
    (pc = "parse" /\ j = 0) =>
        /\ \A k \in 1..Len(builtPairings) :
               \E a, b \in 1..Len(text) :
                   /\ C26_ConsecutiveSeparators(text, a, b)
                   /\ builtPairings[k] = C26_Between(text, a, b)
        /\ Len(Flatten(builtPairings)) = Cardinality(C16_ContentLines(text))

\* the time away from base the parser stored, as a number
C27_Tafb(pair) == ParseInt(pair.tafb)

\* C27: getPairings returns no pairing whose time away from base is below
\* filter.tafb[0] when that bound is set, or above filter.tafb[1] when that
\* bound is set (a bound is set when it differs from -1).
C27_TafbBoundsApplied ==
    shown.called =>
        \A k \in 1..Len(shown.pairings) :
            /\ filter.tafb[1] # 0 - 1 =>
                   C27_Tafb(shown.pairings[k]) >= filter.tafb[1]
            /\ filter.tafb[2] # 0 - 1 =>
                   C27_Tafb(shown.pairings[k]) <= filter.tafb[2]

\* the months of an entry since the year 2000
C28_Age(entry) == 12 * ParseInt(entry[2]) + MonthIndexOf(entry[1])

\* C28: on a store that starts empty, after any uploads (readFile
\* insertions), downloads (downloadData) and deletions (deleteData),
\* allPairingsJSON is ordered newest first by year and month, holds at most
\* one entry for a month and year, and no entry holds a pairing id twice
\* (every uploaded or downloaded list holds each of its ids once).
C28_StoreOrderedAndDistinct ==
    /\ \A a, b \in 1..Len(allPairingsJSON) :
           a < b => C28_Age(allPairingsJSON[a]) >= C28_Age(allPairingsJSON[b])
    /\ \A a, b \in 1..Len(allPairingsJSON) :
           (/\ allPairingsJSON[a][1] = allPairingsJSON[b][1]
            /\ allPairingsJSON[a][2] = allPairingsJSON[b][2]) => a = b
    /\ \A k \in 1..Len(allPairingsJSON) :
           \A a, b \in 1..Len(allPairingsJSON[k][3]) :
               allPairingsJSON[k][3][a].id = allPairingsJSON[k][3][b].id
                   => a = b

\* the store holds four months, the May entry with the pairings of two
\* uploads of that month
C28_FourMonthsAndMergedMay ==
    /\ Len(allPairingsJSON) = 4
    /\ filesToRead = <<"true", "true">>
    /\ filesList = <<"may.pdf", "may2.pdf">>
    /\ \E k \in 1..4 :
           /\ allPairingsJSON[k][1] = TitleMonth(lnTitleMay)
           /\ Len(allPairingsJSON[k][3]) = 2

\* C29: basesIATA holds the ten base codes BOS, CMH, DCA, EWR, IND, LGA, ORD,
\* PHL, PIT, SDF in that order after any single-click and double-click
\* actions on the base buttons: a change of filter.bases never changes it.
C29_BasesIATAConstant ==
    basesIATA = <<Str1("B") \o Str1("O") \o Str1("S"),
                  Str1("C") \o Str1("M") \o Str1("H"),
                  Str1("D") \o Str1("C") \o Str1("A"),
                  Str1("E") \o Str1("W") \o Str1("R"),
                  Str1("I") \o Str1("N") \o Str1("D"),
                  Str1("L") \o Str1("G") \o Str1("A"),
                  Str1("O") \o Str1("R") \o Str1("D"),
                  Str1("P") \o Str1("H") \o Str1("L"),
                  Str1("P") \o Str1("I") \o Str1("T"),
                  Str1("S") \o Str1("D") \o Str1("F")>>

\* C30: once doubleClickAction has run for a click with detail >= 2, no
\* singleClickAction of a click that preceded that click runs; and
\* doubleClickAction has run exactly once for every click with detail >= 2.
C30_DoubleClickCancelsPending ==
    /\ \A p, q \in 1..Len(ran) :
           (/\ p < q
            /\ ran[p].action = "doubleClickAction"
            /\ ran[q].action = "singleClickAction")
               => ran[q].click > ran[p].click
    /\ \A id \in 1..Len(clicks) :
           clicks[id].detail >= 2 =>
               Cardinality({p \in 1..Len(ran) :
                               /\ ran[p].action = "doubleClickAction"
                               /\ ran[p].click = id}) = 1
=============================================================================
